---- MODULE Spec2Model ----
(***************************************************************************)
(* Model of solana-amm-arb-cli: the swap math (arbitrage.rs), the pool     *)
(* snapshot and its normalisation (pool.rs), the transaction assembler     *)
(* (transaction.rs) and the one-shot pipeline of main (main.rs).           *)
(*                                                                         *)
(* Numbers.  The program computes with u64, u128, i128 and i64, wider than *)
(* the integers evaluated here, so every program integer is held as a      *)
(* natural number in base 10^4, least significant limb first, with no      *)
(* leading zero limb (0 is <<>>, 19752 is <<9752, 1>>).  The operators     *)
(* B* below are exact arithmetic on that representation; the widths of     *)
(* the program's types are applied on top of them (AsU64, WrapU128, AsI64).*)
(*                                                                         *)
(* Floats.  The f64 values of the program (prices, the spread, the UI      *)
(* amounts, pnl) are held as exact signed fractions [neg, n, d]: the model *)
(* follows the arithmetic of the code and leaves out the rounding of f64.  *)
(***************************************************************************)
EXTENDS Integers, Sequences, FiniteSets, TLC

(***************************************************************************)
(* Exact naturals in base 10^4                                             *)
(***************************************************************************)
Base == 10^4

RECURSIVE BN(_)
BN(n) == IF n = 0 THEN <<>> ELSE <<n % Base>> \o BN(n \div Base)

Limb(a, i) == IF i <= Len(a) THEN a[i] ELSE 0

RECURSIVE BTrim(_)
BTrim(a) == IF a = <<>> THEN a
            ELSE IF a[Len(a)] = 0 THEN BTrim(SubSeq(a, 1, Len(a) - 1)) ELSE a

RECURSIVE BAddC(_, _, _, _)
BAddC(a, b, i, c) ==
    IF i > Len(a) /\ i > Len(b) THEN (IF c = 0 THEN <<>> ELSE <<c>>)
    ELSE LET s == Limb(a, i) + Limb(b, i) + c
         IN  <<s % Base>> \o BAddC(a, b, i + 1, s \div Base)

BAdd(a, b) == BAddC(a, b, 1, 0)

RECURSIVE BSubC(_, _, _, _)
BSubC(a, b, i, c) ==
    IF i > Len(a) THEN <<>>
    ELSE LET s == Limb(a, i) - Limb(b, i) - c
         IN  IF s < 0 THEN <<s + Base>> \o BSubC(a, b, i + 1, 1)
             ELSE <<s>> \o BSubC(a, b, i + 1, 0)

\* a - b for a >= b
BSub(a, b) == BTrim(BSubC(a, b, 1, 0))

RECURSIVE BCmpAt(_, _, _)
BCmpAt(a, b, i) == IF i = 0 THEN 0
                   ELSE IF a[i] < b[i] THEN -1
                   ELSE IF a[i] > b[i] THEN 1
                   ELSE BCmpAt(a, b, i - 1)

\* -1, 0, 1 as a < b, a = b, a > b
BCmp(a, b) == IF Len(a) < Len(b) THEN -1
              ELSE IF Len(a) > Len(b) THEN 1
              ELSE BCmpAt(a, b, Len(a))

BLe(a, b) == BCmp(a, b) <= 0

BLt(a, b) == BCmp(a, b) < 0

RECURSIVE BMulSmallC(_, _, _, _)
BMulSmallC(a, k, i, c) ==
    IF i > Len(a) THEN (IF c = 0 THEN <<>> ELSE <<c>>)
    ELSE LET s == a[i] * k + c
         IN  <<s % Base>> \o BMulSmallC(a, k, i + 1, s \div Base)

\* a * k for a limb k
BMulSmall(a, k) == IF k = 0 THEN <<>> ELSE BMulSmallC(a, k, 1, 0)

BShift(a) == IF a = <<>> THEN a ELSE <<0>> \o a

RECURSIVE BMul(_, _)
BMul(a, b) == IF b = <<>> \/ a = <<>> THEN <<>>
              ELSE BAdd(BMulSmall(a, Head(b)), BShift(BMul(a, Tail(b))))

\* the largest digit q in lo..hi-1 with q * b <= r
RECURSIVE QDigit(_, _, _, _)
QDigit(r, b, lo, hi) ==
    IF hi - lo <= 1 THEN lo
    ELSE LET mid == (lo + hi) \div 2
         IN  IF BLe(BMulSmall(b, mid), r) THEN QDigit(r, b, mid, hi)
             ELSE QDigit(r, b, lo, mid)

\* Long division, from the top limb of a down: r is the running remainder.
\* Each stage hands its value to the next as a parameter, so that it is
\* computed once.
\* q collects the quotient limbs found so far.
RECURSIVE BDivAt(_, _, _, _, _)

BDivDigit(a, b, i, r1, d, q) ==
    IF d = 0 THEN BDivAt(a, b, i - 1, r1, <<0>> \o q)
    ELSE BDivAt(a, b, i - 1, BSub(r1, BMulSmall(b, d)), <<d>> \o q)

BDivStep(a, b, i, r1, q) ==
    BDivDigit(a, b, i, r1, IF BLt(r1, b) THEN 0 ELSE QDigit(r1, b, 0, Base), q)

BDivAt(a, b, i, r, q) ==
    IF i = 0 THEN [q |-> q, r |-> r]
    ELSE BDivStep(a, b, i, BTrim(<<a[i]>> \o r), q)

\* truncating division and remainder, for b # 0
BDiv(a, b) == BTrim(BDivAt(a, b, Len(a), <<>>, <<>>).q)
BMod(a, b) == BDivAt(a, b, Len(a), <<>>, <<>>).r

Zero == <<>>

One == <<1>>

TwoTo32 == BMul(BN(65536), BN(65536))

TwoTo63 == BMul(BN(32768), BMul(BN(65536), TwoTo32))

TwoTo64 == BMul(TwoTo32, TwoTo32)

TwoTo128 == BMul(TwoTo64, TwoTo64)

U64Max == BSub(TwoTo64, One)

\* 10^k as an exact natural
RECURSIVE PowTen(_)
PowTen(k) == IF k = 0 THEN One ELSE BMulSmall(PowTen(k - 1), 10)

(***************************************************************************)
(* The widths of the program's integer types                               *)
(***************************************************************************)
\* `x as u64` of an unsigned value: the low 64 bits
AsU64(x) == IF BLt(x, TwoTo64) THEN x ELSE BMod(x, TwoTo64)

\* the products and sums kept in 64 bits instead of 128
WrapU64(x) == IF BLt(x, TwoTo64) THEN x ELSE BMod(x, TwoTo64)

\* u128 arithmetic as the release build computes it: modulo 2^128
WrapU128(x) == IF BLt(x, TwoTo128) THEN x ELSE BMod(x, TwoTo128)

\* a - b in u128, wrapping below zero
SubU128(a, b) == IF BLe(b, a) THEN BSub(a, b) ELSE BSub(TwoTo128, BSub(b, a))

\* signed integers: [neg, mag], zero is never negative
MkInt(neg, mag) == [neg |-> neg /\ mag # Zero, mag |-> mag]

\* (a as i128 - b as i128) for u64 a, b: exact
SubI128(a, b) == IF BLe(b, a) THEN MkInt(FALSE, BSub(a, b)) ELSE MkInt(TRUE, BSub(b, a))

\* `z as i64` of an i128: the low 64 bits read as two's complement
I64OfLow(low) == IF BLt(low, TwoTo63) THEN MkInt(FALSE, low)
                 ELSE MkInt(TRUE, BSub(TwoTo64, low))

NegLow(m) == IF m = Zero THEN Zero ELSE BSub(TwoTo64, m)

AsI64(z) == I64OfLow(IF z.neg THEN NegLow(BMod(z.mag, TwoTo64))
                     ELSE BMod(z.mag, TwoTo64))

(***************************************************************************)
(* arbitrage.rs: constants and the swap math                               *)
(***************************************************************************)
ESTIMATED_COMPUTE_UNITS == 100000

LAMPORTS_PER_SOL == 1000000000

MICRO_LAMPORTS_PER_LAMPORTS == 1000000

UNITS_PER_TRADE_FEE_RATE == 1000000

\* The frame of one call: every local of the function, and whether the
\* division faults (a zero denominator panics in every build).
swap_frame(fees, net_in, numerator, denominator, amount_out) ==
    [fees |-> fees, net_in |-> net_in, numerator |-> numerator,
     denominator |-> denominator, div_by_zero |-> denominator = Zero,
     amount_out |-> AsU64(amount_out)]

\* line 95, the division done before the multiplication
swap_divide_first(fees, net_in, reserve_out, numerator, denominator) ==
    swap_frame(fees, net_in, numerator, denominator,
               IF denominator = Zero THEN Zero
               ELSE WrapU128(BMul(BDiv(net_in, denominator), reserve_out)))

\* line 95 with the quotient rounded up
swap_divide_round_up(fees, net_in, reserve_out, numerator, denominator) ==
    swap_frame(fees, net_in, numerator, denominator,
               IF denominator = Zero THEN Zero
               ELSE BDiv(BAdd(numerator, BSub(denominator, One)), denominator))

\* line 95: amount_out = numerator / denominator
swap_divide(fees, net_in, reserve_out, numerator, denominator) ==
    swap_frame(fees, net_in, numerator, denominator,
               IF denominator = Zero THEN Zero ELSE BDiv(numerator, denominator))

\* lines 93-94: numerator and denominator
swap_net(fees, net_in, reserve_in, reserve_out) ==
    swap_divide(fees, net_in, reserve_out,
                WrapU128(BMul(net_in, reserve_out)),
                WrapU128(BAdd(reserve_in, net_in)))

\* line 91: net_in = amount_in - fees
swap_fees(amount_in, fees, reserve_in, reserve_out) ==
    swap_net(fees, SubU128(amount_in, fees), reserve_in, reserve_out)

\* line 90: fees = amount_in * trade_fee_rate / UNITS_PER_TRADE_FEE_RATE
calculate_swap_output_raw(amount_in, reserve_in, reserve_out, trade_fee_rate) ==
    swap_fees(amount_in,
              BDiv(WrapU128(BMul(amount_in, trade_fee_rate)),
                   BN(UNITS_PER_TRADE_FEE_RATE)),
              reserve_in, reserve_out)

(***************************************************************************)
(* f64 values as exact signed fractions                                    *)
(***************************************************************************)
\* n / d with d > 0; zero is never negative
Frac(neg, n, d) == [neg |-> neg /\ n # Zero, n |-> n, d |-> d]

FracZero == Frac(FALSE, Zero, One)

\* an integer z over 10^dec: `z as f64 / 10_f64.powi(dec)`
FracOfInt(z, dec) == Frac(z.neg, z.mag, PowTen(dec))

\* x - y
FracSub(x, y) ==
    LET a == BMul(x.n, y.d)
        b == BMul(y.n, x.d)
        d == BMul(x.d, y.d)
    IN  IF x.neg = y.neg
        THEN (IF BLe(b, a) THEN Frac(x.neg, BSub(a, b), d)
              ELSE Frac(~x.neg, BSub(b, a), d))
        ELSE Frac(x.neg, BAdd(a, b), d)

\* x / y for y # 0
FracDiv(x, y) == Frac(x.neg # y.neg, BMul(x.n, y.d), BMul(x.d, y.n))

FracMulInt(x, k) == Frac(x.neg, BMul(x.n, k), x.d)

FracPositive(x) == ~x.neg /\ x.n # Zero

FracNegative(x) == x.neg

\* x > y
FracGt(x, y) == FracPositive(FracSub(x, y))

\* x >= y
FracGe(x, y) == ~FracNegative(FracSub(x, y))

FracEq(x, y) == FracSub(x, y).n = Zero

\* an f64: a finite fraction, +infinity or NaN
Num(x) == [k |-> "num", v |-> x]

PosInf == [k |-> "inf", v |-> FracZero]

NaN == [k |-> "nan", v |-> FracZero]

\* `x >= t as f64` for an f64 x and an integer t: false for NaN
F64GeInt(x, t) == CASE x.k = "num" -> FracGe(x.v, Frac(FALSE, t, One))
                    [] x.k = "inf" -> TRUE
                    [] OTHER -> FALSE

(***************************************************************************)
(* arbitrage.rs: prices, spread, slippage                                  *)
(***************************************************************************)
calculate_price(reserve0, reserve1, decimals0, decimals1) ==
    IF reserve0 = Zero THEN FracZero
    ELSE LET r0 == Frac(FALSE, reserve0, PowTen(decimals0))
             r1 == Frac(FALSE, reserve1, PowTen(decimals1))
         IN  FracDiv(r1, r0)

\* (price_b - price_a) / price_a * 10000; a zero price_a divides by zero:
\* +infinity for price_b > 0, NaN for price_b = 0
spread_bps(price_a, price_b) ==
    IF price_a.n = Zero
    THEN (IF price_b.n = Zero THEN NaN ELSE PosInf)
    ELSE Num(FracMulInt(FracDiv(FracSub(price_b, price_a), price_a), BN(10000)))

\* `as u64` of a non-negative value too large for it
saturate_u64(q) == IF BLt(q, TwoTo64) THEN q ELSE U64Max

\* The arithmetic of calculate_min_out is followed in f64 itself: a value is
\* the fraction n / d that the double holds, and every operation rounds its
\* exact result to the nearest double (53 significant bits, ties to even).
TwoTo52 == BMul(BN(1048576), TwoTo32)

TwoTo53 == BMulSmall(TwoTo52, 2)

\* n / d to the nearest integer, ties to the even one: q the quotient,
\* r2 twice the remainder
RoundHalfEvenOf(q, r2, d) ==
    IF BLt(d, r2) THEN BAdd(q, One)
    ELSE IF r2 = d /\ Limb(q, 1) % 2 = 1 THEN BAdd(q, One)
    ELSE q

\* from the quotient and remainder of one long division
RoundHalfEvenQR(qr, d) == RoundHalfEvenOf(BTrim(qr.q), BMulSmall(qr.r, 2), d)

RoundHalfEven(n, d) == RoundHalfEvenQR(BDivAt(n, d, Len(n), <<>>, <<>>), d)

\* n / d >= 2^53: d is doubled (in strides of 2^16, then 2^4, then 2) until the
\* quotient has 53 bits; p is the weight of its last bit
RECURSIVE F64ScaleDown(_, _, _, _)
F64ScaleDown(n, d, p, step) ==
    IF BLe(BMul(BMul(d, BN(step)), TwoTo52), n)
    THEN F64ScaleDown(n, BMul(d, BN(step)), BMul(p, BN(step)), step)
    ELSE IF step > 2 THEN F64ScaleDown(n, d, p, (IF step = 65536 THEN 16 ELSE 2))
    ELSE Frac(FALSE, BMul(RoundHalfEven(n, d), p), One)

\* n / d < 2^52: n is doubled until the quotient has 53 bits
RECURSIVE F64ScaleUp(_, _, _, _)
F64ScaleUp(n, d, p, step) ==
    IF BLt(BMul(n, BN(step)), BMul(d, TwoTo53))
    THEN F64ScaleUp(BMul(n, BN(step)), d, BMul(p, BN(step)), step)
    ELSE IF step > 2 THEN F64ScaleUp(n, d, p, (IF step = 65536 THEN 16 ELSE 2))
    ELSE Frac(FALSE, RoundHalfEven(n, d), p)

\* the double nearest to n / d, for n >= 0 and d > 0; an integer below 2^53
\* is a double as it stands
RoundF64(n, d) ==
    IF n = Zero THEN FracZero
    ELSE IF d = One /\ BLt(n, TwoTo53) THEN Frac(FALSE, n, One)
    ELSE IF BLe(BMul(d, TwoTo53), n) THEN F64ScaleDown(n, d, One, 65536)
    ELSE F64ScaleUp(n, d, One, 65536)

\* `x as u64` for a double x >= 0: truncated, saturating at u64::MAX
F64AsU64(x) == saturate_u64(BDiv(x.n, x.d))

\* line 117: (amount_out as f64 * slippage_factor) as u64
min_out_product(amount_out_f64, slippage_factor) ==
    F64AsU64(RoundF64(BMul(amount_out_f64.n, slippage_factor.n),
                      BMul(amount_out_f64.d, slippage_factor.d)))

\* line 116: 1.0 - ratio
min_out_factor(amount_out, ratio) ==
    min_out_product(RoundF64(amount_out, One), RoundF64(BSub(ratio.d, ratio.n), ratio.d))

calculate_min_out(amount_out, slippage_bps) ==
    IF slippage_bps >= 10000 THEN Zero
    ELSE min_out_factor(amount_out, RoundF64(BN(slippage_bps), BN(10000)))

(***************************************************************************)
(* pool.rs: the pool snapshot                                              *)
(***************************************************************************)
SOL_MINT == "SOL"

\* u64 subtraction as the release build computes it: modulo 2^64
SubU64(a, b) == IF BLe(b, a) THEN BSub(a, b) ELSE BSub(TwoTo64, BSub(b, a))

\* PoolData::new: the decoded pool state and its config, as fetched
PoolData_new(pool_id, account) ==
    [pool_id |-> pool_id, state |-> account.state, config |-> account.config]

\* PoolData::get_values, given the two vault balances just fetched
get_values(pool, vault_amount0, vault_amount1) ==
    [mint0 |-> pool.state.token0_mint,
     mint1 |-> pool.state.token1_mint,
     vault_amount0 |-> vault_amount0,
     vault_amount1 |-> vault_amount1,
     protocol_fees_token0 |-> pool.state.protocol_fees_token0,
     protocol_fees_token1 |-> pool.state.protocol_fees_token1,
     fund_fees_token0 |-> pool.state.fund_fees_token0,
     fund_fees_token1 |-> pool.state.fund_fees_token1,
     reserve0 |-> SubU64(SubU64(vault_amount0, pool.state.protocol_fees_token0),
                         pool.state.fund_fees_token0),
     reserve1 |-> SubU64(SubU64(vault_amount1, pool.state.protocol_fees_token1),
                         pool.state.fund_fees_token1),
     token0_decimals |-> pool.state.mint0_decimals,
     token1_decimals |-> pool.state.mint1_decimals,
     trade_fee_rate |-> pool.config.trade_fee_rate]

\* a normalisation that swaps exactly when the sides are already in order
normalize_pool_values_when_equal(v, first_mint) ==
    IF v.mint0 = first_mint
    THEN [v EXCEPT !.mint0 = v.mint1, !.mint1 = v.mint0,
                   !.vault_amount0 = v.vault_amount1, !.vault_amount1 = v.vault_amount0,
                   !.protocol_fees_token0 = v.protocol_fees_token1,
                   !.protocol_fees_token1 = v.protocol_fees_token0,
                   !.fund_fees_token0 = v.fund_fees_token1,
                   !.fund_fees_token1 = v.fund_fees_token0,
                   !.reserve0 = v.reserve1, !.reserve1 = v.reserve0,
                   !.token0_decimals = v.token1_decimals,
                   !.token1_decimals = v.token0_decimals]
    ELSE v

\* a normalisation that swaps the mints and the reserves but leaves the
\* vault amounts, fees and decimals where they were
normalize_pool_values_partial(v, first_mint) ==
    IF v.mint0 # first_mint
    THEN [v EXCEPT !.mint0 = v.mint1, !.mint1 = v.mint0,
                   !.reserve0 = v.reserve1, !.reserve1 = v.reserve0]
    ELSE v

\* PoolValues::normalize_pool_values: swap the sides unless mint0 is first_mint
normalize_pool_values(v, first_mint) ==
    IF v.mint0 # first_mint
    THEN [mint0 |-> v.mint1,
          mint1 |-> v.mint0,
          vault_amount0 |-> v.vault_amount1,
          vault_amount1 |-> v.vault_amount0,
          protocol_fees_token0 |-> v.protocol_fees_token1,
          protocol_fees_token1 |-> v.protocol_fees_token0,
          fund_fees_token0 |-> v.fund_fees_token1,
          fund_fees_token1 |-> v.fund_fees_token0,
          reserve0 |-> v.reserve1,
          reserve1 |-> v.reserve0,
          token0_decimals |-> v.token1_decimals,
          token1_decimals |-> v.token0_decimals,
          trade_fee_rate |-> v.trade_fee_rate]
    ELSE v

(***************************************************************************)
(* arbitrage.rs: one direction's quote                                     *)
(***************************************************************************)
\* (amount_in * 10^decimals) as u64: truncated, saturating at u64::MAX
ui_to_raw(amount_in, decimals) ==
    saturate_u64(BDiv(BMul(amount_in.n, PowTen(decimals)), amount_in.d))

NoPnl == [some |-> FALSE, v |-> FracZero]

SomePnl(x) == [some |-> TRUE, v |-> x]

\* (amount_out_raw_2 as i128 - amount_in_raw as i128) as i64
gross_profit_raw_of(amount_out_raw_2, amount_in_raw) ==
    AsI64(SubI128(amount_out_raw_2, amount_in_raw))

\* the second leg: pool_out, from its side 1 back to its side 0
second_leg(amount_out_raw_1, pool_out) ==
    calculate_swap_output_raw(amount_out_raw_1, pool_out.reserve1, pool_out.reserve0,
                              pool_out.trade_fee_rate)

\* a quote whose pnl is always present, whatever token it ends in
pnl_quote_always(amount_in, amount_in_raw, pool_out, rent_raw, total_fees_raw, leg1, leg2, gross_profit_raw) ==
    [amount_in |-> amount_in,
     amount_in_raw |-> amount_in_raw,
     amount_out_1_raw |-> leg1.amount_out,
     amount_out_2_raw |-> leg2.amount_out,
     gross_profit |-> FracOfInt(gross_profit_raw, pool_out.token0_decimals),
     gross_profit_raw |-> gross_profit_raw,
     total_fees |-> Frac(FALSE, total_fees_raw, BN(LAMPORTS_PER_SOL)),
     total_fees_raw |-> total_fees_raw,
     rent_raw |-> rent_raw,
     pnl |-> SomePnl(FracSub(FracOfInt(gross_profit_raw, pool_out.token0_decimals),
                             Frac(FALSE, total_fees_raw, BN(LAMPORTS_PER_SOL)))),
     panics |-> leg1.div_by_zero \/ leg2.div_by_zero]

\* lines 53-80: the UI values, pnl and the quote
pnl_quote(amount_in, amount_in_raw, pool_out, rent_raw, total_fees_raw, leg1, leg2, gross_profit_raw) ==
    LET total_fees == Frac(FALSE, total_fees_raw, BN(LAMPORTS_PER_SOL))
        gross_profit == FracOfInt(gross_profit_raw, pool_out.token0_decimals)
    IN  [amount_in |-> amount_in,
         amount_in_raw |-> amount_in_raw,
         amount_out_1_raw |-> leg1.amount_out,
         amount_out_2_raw |-> leg2.amount_out,
         gross_profit |-> gross_profit,
         gross_profit_raw |-> gross_profit_raw,
         total_fees |-> total_fees,
         total_fees_raw |-> total_fees_raw,
         rent_raw |-> rent_raw,
         pnl |-> IF pool_out.mint0 = SOL_MINT
                 THEN SomePnl(FracSub(gross_profit, total_fees))
                 ELSE NoPnl,
         panics |-> leg1.div_by_zero \/ leg2.div_by_zero]

\* line 51: gross_profit_raw
pnl_leg2(amount_in, amount_in_raw, pool_out, rent_raw, total_fees_raw, leg1, leg2) ==
    pnl_quote(amount_in, amount_in_raw, pool_out, rent_raw, total_fees_raw, leg1, leg2,
              gross_profit_raw_of(leg2.amount_out, amount_in_raw))

\* lines 44-49: the second swap, fed with the output of the first
pnl_leg1(amount_in, amount_in_raw, pool_out, rent_raw, total_fees_raw, leg1) ==
    pnl_leg2(amount_in, amount_in_raw, pool_out, rent_raw, total_fees_raw, leg1,
             second_leg(leg1.amount_out, pool_out))

\* lines 37-42: the first swap
pnl_raw(amount_in, amount_in_raw, pool_in, pool_out, rent_raw, total_fees_raw) ==
    pnl_leg1(amount_in, amount_in_raw, pool_out, rent_raw, total_fees_raw,
             calculate_swap_output_raw(amount_in_raw, pool_in.reserve0,
                                       pool_in.reserve1, pool_in.trade_fee_rate))

\* line 34: rent plus the priority fee in lamports, in u64
total_fees_raw_of(rent_raw, priority_fee) ==
    AsU64(BAdd(rent_raw,
               BDiv(AsU64(BMul(priority_fee, BN(ESTIMATED_COMPUTE_UNITS))),
                    BN(MICRO_LAMPORTS_PER_LAMPORTS))))

\* lines 34-35, then the rest
calculate_pnl(amount_in, pool_in, pool_out, rent_raw, priority_fee) ==
    pnl_raw(amount_in, ui_to_raw(amount_in, pool_in.token0_decimals), pool_in, pool_out,
            rent_raw, total_fees_raw_of(rent_raw, priority_fee))

(***************************************************************************)
(* main.rs: the direction and the decision                                 *)
(***************************************************************************)
AtoB(arb_a_b, price_a, price_b) ==
    [arb |-> arb_a_b, first_label |-> "PoolA", second_label |-> "PoolB",
     price_first |-> price_a, price_second |-> price_b]

BtoA(arb_b_a, price_a, price_b) ==
    [arb |-> arb_b_a, first_label |-> "PoolB", second_label |-> "PoolA",
     price_first |-> price_b, price_second |-> price_a]

\* the comparison the wrong way round
choose_direction_lesser(arb_a_b, arb_b_a, price_a, price_b) ==
    IF arb_a_b.pnl.some /\ arb_b_a.pnl.some
    THEN (IF FracGt(arb_b_a.pnl.v, arb_a_b.pnl.v)
          THEN AtoB(arb_a_b, price_a, price_b)
          ELSE BtoA(arb_b_a, price_a, price_b))
    ELSE IF FracGt(arb_b_a.gross_profit, arb_a_b.gross_profit)
         THEN AtoB(arb_a_b, price_a, price_b)
         ELSE BtoA(arb_b_a, price_a, price_b)

\* The pools and pool values of the result are named by its labels: the
\* first label's pool is pool_in and in_vals, the second's pool_out and
\* out_vals.
choose_direction(arb_a_b, arb_b_a, price_a, price_b) ==
    IF arb_a_b.pnl.some /\ arb_b_a.pnl.some
    THEN (IF FracGt(arb_a_b.pnl.v, arb_b_a.pnl.v)
          THEN AtoB(arb_a_b, price_a, price_b)
          ELSE BtoA(arb_b_a, price_a, price_b))
    ELSE IF FracGt(arb_a_b.gross_profit, arb_b_a.gross_profit)
         THEN AtoB(arb_a_b, price_a, price_b)
         ELSE BtoA(arb_b_a, price_a, price_b)

\* profitable on the gross profit even when pnl is defined
is_profitable_gross(arb_chosen) == FracPositive(arb_chosen.gross_profit)

is_profitable_of(arb_chosen) ==
    IF arb_chosen.pnl.some THEN FracPositive(arb_chosen.pnl.v)
    ELSE FracPositive(arb_chosen.gross_profit)

meets_spread_threshold_of(spread_bps_val, spread_threshold_bps) ==
    F64GeInt(spread_bps_val, BN(spread_threshold_bps))

should_execute_of(is_profitable, meets_spread_threshold) ==
    is_profitable /\ meets_spread_threshold

(***************************************************************************)
(* transaction.rs: the assembled transaction                               *)
(***************************************************************************)
COMPUTE_UNIT_LIMIT == 400000

\* create_swap_instruction: the accounts that name the pool, the user's
\* source and destination token accounts (by mint), the input and output
\* side of the pool, and the instruction data
create_swap_instruction(pool, user_source_token, user_dest_token, amount_in, min_amount_out, swap_direction) ==
    [kind |-> "swap",
     pool |-> pool.pool_id,
     user_source_token |-> user_source_token,
     user_dest_token |-> user_dest_token,
     input_mint |-> IF swap_direction THEN pool.state.token0_mint
                    ELSE pool.state.token1_mint,
     output_mint |-> IF swap_direction THEN pool.state.token1_mint
                     ELSE pool.state.token0_mint,
     amount_in |-> amount_in,
     min_amount_out |-> min_amount_out]

\* rpc.get_account(&ata).is_err(): not found and a failed call alike
ata_absent(lookup) == lookup # "found"

\* the same instructions with the account creations pushed after the swaps
create_arbitrage_transaction_swaps_first(expensive_pool, cheap_pool, amount_in, min_out, priority_fee, lookup0, lookup1) ==
    LET token0_mint == cheap_pool.state.token0_mint
        token1_mint == cheap_pool.state.token1_mint
    IN  <<[kind |-> "set_compute_unit_limit", units |-> COMPUTE_UNIT_LIMIT],
          [kind |-> "set_compute_unit_price", price |-> priority_fee]>>
        \o <<create_swap_instruction(cheap_pool, token0_mint, token1_mint,
                                     amount_in, Zero, TRUE),
             create_swap_instruction(expensive_pool, token1_mint, token0_mint,
                                     U64Max, min_out, FALSE)>>
        \o (IF ata_absent(lookup0)
            THEN <<[kind |-> "create_ata", mint |-> token0_mint]>> ELSE <<>>)
        \o (IF ata_absent(lookup1)
            THEN <<[kind |-> "create_ata", mint |-> token1_mint]>> ELSE <<>>)

\* create_arbitrage_transaction, given the outcome of its two account
\* lookups: the instruction list in order
create_arbitrage_transaction(expensive_pool, cheap_pool, amount_in, min_out, priority_fee, lookup0, lookup1) ==
    LET token0_mint == cheap_pool.state.token0_mint
        token1_mint == cheap_pool.state.token1_mint
    IN  <<[kind |-> "set_compute_unit_limit", units |-> COMPUTE_UNIT_LIMIT],
          [kind |-> "set_compute_unit_price", price |-> priority_fee]>>
        \o (IF ata_absent(lookup0)
            THEN <<[kind |-> "create_ata", mint |-> token0_mint]>> ELSE <<>>)
        \o (IF ata_absent(lookup1)
            THEN <<[kind |-> "create_ata", mint |-> token1_mint]>> ELSE <<>>)
        \o <<create_swap_instruction(cheap_pool, token0_mint, token1_mint,
                                     amount_in, Zero, TRUE),
             create_swap_instruction(expensive_pool, token1_mint, token0_mint,
                                     U64Max, min_out, FALSE)>>

(***************************************************************************)
(* The environment: what the chain holds and what the user configured      *)
(***************************************************************************)
\* how many of the pool samples, and of the amount samples, a run may draw
MaxPoolSample == 2

MaxAmountSample == 3

\* m * 10^k
E(m, k) == BMul(BN(m), PowTen(k))

MintDecimals(m) == CASE m = "SOL" -> 9 [] m = "USDC" -> 6 [] OTHER -> 5

\* Balances of a pool's two sides, x (SOL or BONK) and y (USDC), with the
\* fees held in the vaults and the trade fee rate of the pool's config.
PoolSample(i) ==
    CASE i = 1 -> [x |-> E(1000005, 6), pfx |-> E(3, 6), ffx |-> E(2, 6),
                   y |-> E(2000007, 5), pfy |-> E(4, 5), ffy |-> E(3, 5),
                   fee |-> 2500]
      [] i = 2 -> [x |-> E(1000, 9), pfx |-> Zero, ffx |-> Zero,
                   y |-> E(210000, 6), pfy |-> Zero, ffy |-> Zero,
                   fee |-> 2500]
      [] i = 3 -> [x |-> E(2, 9), pfx |-> BN(1000), ffx |-> Zero,
                   y |-> E(390, 6), pfy |-> Zero, ffy |-> BN(70),
                   fee |-> 10000]
      [] OTHER -> [x |-> E(50, 9), pfx |-> Zero, ffx |-> Zero,
                   y |-> E(9900, 6), pfy |-> Zero, ffy |-> Zero,
                   fee |-> 100]

\* the amount-in of the configuration, in UI units
AmountSample(i) ==
    CASE i = 1 -> Frac(FALSE, One, One)
      [] i = 2 -> Frac(FALSE, One, PowTen(5))
      [] i = 3 -> Frac(FALSE, PowTen(10), One)
      [] i = 4 -> Frac(FALSE, BN(25), One)
      [] OTHER -> FracZero

Layouts == {"sol_usdc", "usdc_sol", "usdc_bonk"}

\* the pool account, its config account and its two vaults as they are on chain
ChainPool(i, layout) ==
    LET p == PoolSample(i)
        m0 == IF layout = "sol_usdc" THEN "SOL" ELSE "USDC"
        m1 == CASE layout = "sol_usdc" -> "USDC"
                [] layout = "usdc_sol" -> "SOL"
                [] OTHER -> "BONK"
        xfirst == layout = "sol_usdc"
    IN  [state |-> [token0_mint |-> m0,
                    token1_mint |-> m1,
                    protocol_fees_token0 |-> IF xfirst THEN p.pfx ELSE p.pfy,
                    protocol_fees_token1 |-> IF xfirst THEN p.pfy ELSE p.pfx,
                    fund_fees_token0 |-> IF xfirst THEN p.ffx ELSE p.ffy,
                    fund_fees_token1 |-> IF xfirst THEN p.ffy ELSE p.ffx,
                    mint0_decimals |-> MintDecimals(m0),
                    mint1_decimals |-> MintDecimals(m1)],
         config |-> [trade_fee_rate |-> BN(p.fee)],
         vault0 |-> IF xfirst THEN p.x ELSE p.y,
         vault1 |-> IF xfirst THEN p.y ELSE p.x]

\* rent-exempt minimum of a 165-byte token account, in lamports
RentPerAta == BN(2039280)

Configs ==
    [amount_in : {AmountSample(i) : i \in 1..MaxAmountSample},
     mint_in : {"SOL", "USDC"},
     spread_threshold_bps : {0, 100},
     slippage_bps : {500},
     priority_fee_microlamports : {BN(100000)},
     simulate_only : BOOLEAN]

MintOut(c) == IF c.mint_in = "SOL" THEN "USDC" ELSE "SOL"

Chains ==
    {[pool_a |-> ChainPool(i, "sol_usdc"), pool_b |-> ChainPool(j, l)] :
        i \in 1..MaxPoolSample, j \in 1..MaxPoolSample, l \in Layouts}

(***************************************************************************)
(* main.rs: the state of one run                                           *)
(***************************************************************************)
VARIABLES
    pc,             \* the position of main
    cfg,            \* the resolved runtime parameters
    chain,          \* the pool accounts on chain
    rpc_log,        \* every RPC call attempted, in order, with its outcome
    pool_a,         \* PoolData of pool A
    pool_b,         \* PoolData of pool B
    pool_a_values,  \* PoolValues of pool A
    pool_b_values,  \* PoolValues of pool B
    prices,         \* price_a, price_b, spread_bps_val
    atas,           \* the two token-account observations
    rent_raw,       \* rent charged for the accounts observed absent
    quotes,         \* arb_a_b, arb_b_a and the chosen direction
    decision,       \* is_profitable, meets_spread_threshold, should_execute
    min_out,        \* the slippage-protected minimum of leg 2
    tx,             \* the instructions of the assembled transaction
    outcome,        \* mode, tx_signature, simulate_result, tx_error
    steps,          \* the audit trail
    report,         \* the JSON report written at the end
    sw              \* one call of calculate_swap_output_raw: arguments and frame

vars == <<pc, cfg, chain, rpc_log, pool_a, pool_b, pool_a_values, pool_b_values,
          prices, atas, rent_raw, quotes, decision, min_out, tx, outcome, steps,
          report, sw>>

Absent == [absent |-> TRUE]

NoOutcome == [mode |-> "none", tx_signature |-> "none", simulate_result |-> "none",
              tx_error |-> "none"]

Call(name, target, ok) == [call |-> name, target |-> target, ok |-> ok]

\* main is at its start; nothing fetched or computed yet
RunFresh ==
    /\ rpc_log = <<>>
    /\ pool_a = Absent
    /\ pool_b = Absent
    /\ pool_a_values = Absent
    /\ pool_b_values = Absent
    /\ prices = Absent
    /\ atas = Absent
    /\ rent_raw = Absent
    /\ quotes = Absent
    /\ decision = Absent
    /\ min_out = Absent
    /\ tx = Absent
    /\ outcome = NoOutcome
    /\ steps = <<>>
    /\ report = Absent

Init ==
    /\ pc = "load_pool_a"
    /\ cfg \in Configs
    /\ chain \in Chains
    /\ RunFresh
    /\ sw = Absent

Abort(log) ==
    /\ pc' = "aborted"
    /\ rpc_log' = log

(***************************************************************************)
(* main.rs 242-261: the two pools and their values                         *)
(***************************************************************************)
\* PoolData::new for pool A: the pool account, then its config account
LoadPoolA ==
    /\ pc = "load_pool_a"
    /\ \/ /\ Abort(rpc_log \o <<Call("get_account", "pool_a", FALSE)>>)
          /\ UNCHANGED pool_a
       \/ /\ Abort(rpc_log \o <<Call("get_account", "pool_a", TRUE),
                                Call("get_account", "config_a", FALSE)>>)
          /\ UNCHANGED pool_a
       \/ /\ pc' = "load_pool_b"
          /\ rpc_log' = rpc_log \o <<Call("get_account", "pool_a", TRUE),
                                     Call("get_account", "config_a", TRUE)>>
          /\ pool_a' = PoolData_new("PoolA", chain.pool_a)
    /\ UNCHANGED <<cfg, chain, pool_b, pool_a_values, pool_b_values, prices, atas,
                   rent_raw, quotes, decision, min_out, tx, outcome, steps, report, sw>>

LoadPoolB ==
    /\ pc = "load_pool_b"
    /\ \/ /\ Abort(rpc_log \o <<Call("get_account", "pool_b", FALSE)>>)
          /\ UNCHANGED pool_b
       \/ /\ Abort(rpc_log \o <<Call("get_account", "pool_b", TRUE),
                                Call("get_account", "config_b", FALSE)>>)
          /\ UNCHANGED pool_b
       \/ /\ pc' = "values_a"
          /\ rpc_log' = rpc_log \o <<Call("get_account", "pool_b", TRUE),
                                     Call("get_account", "config_b", TRUE)>>
          /\ pool_b' = PoolData_new("PoolB", chain.pool_b)
    /\ UNCHANGED <<cfg, chain, pool_a, pool_a_values, pool_b_values, prices, atas,
                   rent_raw, quotes, decision, min_out, tx, outcome, steps, report, sw>>

\* PoolData::get_values for pool A: vault 0, then vault 1
GetValuesA ==
    /\ pc = "values_a"
    /\ \/ /\ Abort(rpc_log \o <<Call("get_account", "vault0_a", FALSE)>>)
          /\ UNCHANGED pool_a_values
       \/ /\ Abort(rpc_log \o <<Call("get_account", "vault0_a", TRUE),
                                Call("get_account", "vault1_a", FALSE)>>)
          /\ UNCHANGED pool_a_values
       \/ /\ pc' = "values_b"
          /\ rpc_log' = rpc_log \o <<Call("get_account", "vault0_a", TRUE),
                                     Call("get_account", "vault1_a", TRUE)>>
          /\ pool_a_values' = get_values(pool_a, chain.pool_a.vault0, chain.pool_a.vault1)
    /\ UNCHANGED <<cfg, chain, pool_a, pool_b, pool_b_values, prices, atas,
                   rent_raw, quotes, decision, min_out, tx, outcome, steps, report, sw>>

GetValuesB ==
    /\ pc = "values_b"
    /\ \/ /\ Abort(rpc_log \o <<Call("get_account", "vault0_b", FALSE)>>)
          /\ UNCHANGED pool_b_values
       \/ /\ Abort(rpc_log \o <<Call("get_account", "vault0_b", TRUE),
                                Call("get_account", "vault1_b", FALSE)>>)
          /\ UNCHANGED pool_b_values
       \/ /\ pc' = "normalize"
          /\ rpc_log' = rpc_log \o <<Call("get_account", "vault0_b", TRUE),
                                     Call("get_account", "vault1_b", TRUE)>>
          /\ pool_b_values' = get_values(pool_b, chain.pool_b.vault0, chain.pool_b.vault1)
    /\ UNCHANGED <<cfg, chain, pool_a, pool_b, pool_a_values, prices, atas,
                   rent_raw, quotes, decision, min_out, tx, outcome, steps, report, sw>>

(***************************************************************************)
(* main.rs 262-303: normalisation, prices and spread                       *)
(***************************************************************************)
NormalizeAndPrice ==
    /\ pc = "normalize"
    /\ LET va == normalize_pool_values(pool_a_values, cfg.mint_in)
           vb == normalize_pool_values(pool_b_values, cfg.mint_in)
           price_a == calculate_price(va.reserve0, va.reserve1,
                                      va.token0_decimals, va.token1_decimals)
           price_b == calculate_price(vb.reserve0, vb.reserve1,
                                      vb.token0_decimals, vb.token1_decimals)
       IN  /\ pool_a_values' = va
           /\ pool_b_values' = vb
           /\ prices' = [price_a |-> price_a, price_b |-> price_b,
                         spread_bps_val |-> spread_bps(price_a, price_b)]
    /\ steps' = steps \o <<"Pools", "Mints", "Prices">>
    /\ pc' = "token_accounts"
    /\ UNCHANGED <<cfg, chain, rpc_log, pool_a, pool_b, atas, rent_raw, quotes,
                   decision, min_out, tx, outcome, report, sw>>

(***************************************************************************)
(* main.rs 305-344: token accounts and rent                                *)
(***************************************************************************)
AtaTarget(m) == CASE m = "SOL" -> "ata_SOL" [] m = "USDC" -> "ata_USDC" [] OTHER -> "ata_BONK"

\* what one account lookup can return
Lookups == {"found", "not_found", "failed"}

\* the TokenAccountStatus of one mint, from a lookup that came back
get_missing_token_account(mint, lookup) == [mint |-> mint, exists |-> lookup = "found"]

\* the two existence lookups, mint_in first; a failed call ends the run
LookupAtas ==
    /\ pc = "token_accounts"
    /\ \/ /\ Abort(rpc_log \o <<Call("get_account", AtaTarget(cfg.mint_in), FALSE)>>)
          /\ UNCHANGED atas
       \/ /\ Abort(rpc_log \o <<Call("get_account", AtaTarget(cfg.mint_in), TRUE),
                                Call("get_account", AtaTarget(MintOut(cfg)), FALSE)>>)
          /\ UNCHANGED atas
       \/ \E l_in \in {"found", "not_found"}, l_out \in {"found", "not_found"} :
             /\ atas' = <<get_missing_token_account(cfg.mint_in, l_in),
                          get_missing_token_account(MintOut(cfg), l_out)>>
             /\ rpc_log' = rpc_log \o <<Call("get_account", AtaTarget(cfg.mint_in), TRUE),
                                        Call("get_account", AtaTarget(MintOut(cfg)), TRUE)>>
             /\ pc' = "rent"
    /\ UNCHANGED <<cfg, chain, pool_a, pool_b, pool_a_values, pool_b_values, prices,
                   rent_raw, quotes, decision, min_out, tx, outcome, steps, report, sw>>

\* rent charged once per swap leg that touches an absent account
rent_raw_of_per_leg(a, rent_per_ata) ==
    BMulSmall(rent_per_ata, 2 * ((IF a[1].exists THEN 0 ELSE 1) + (IF a[2].exists THEN 0 ELSE 1)))

\* rent only for the accounts that do not exist
rent_raw_of(a, rent_per_ata) ==
    BMulSmall(rent_per_ata, (IF a[1].exists THEN 0 ELSE 1) + (IF a[2].exists THEN 0 ELSE 1))

RentQuery ==
    /\ pc = "rent"
    /\ \/ /\ Abort(rpc_log \o <<Call("get_minimum_balance_for_rent_exemption", "rent", FALSE)>>)
          /\ UNCHANGED <<rent_raw, steps>>
       \/ /\ rpc_log' = rpc_log \o
                 <<Call("get_minimum_balance_for_rent_exemption", "rent", TRUE)>>
          /\ rent_raw' = rent_raw_of(atas, RentPerAta)
          /\ steps' = Append(steps, "ATAs")
          /\ pc' = "evaluate"
    /\ UNCHANGED <<cfg, chain, pool_a, pool_b, pool_a_values, pool_b_values, prices,
                   atas, quotes, decision, min_out, tx, outcome, report, sw>>

(***************************************************************************)
(* main.rs 346-474: both quotes, the direction, the decision, min_out      *)
(***************************************************************************)
\* an audit trail that stops at the first reason it finds
decision_steps_first_reason(is_profitable, meets_spread_threshold, should_execute) ==
    (IF ~is_profitable THEN <<"Not profitable">>
     ELSE IF ~meets_spread_threshold THEN <<"Spread below threshold">>
     ELSE <<>>)
    \o <<IF should_execute THEN "Decision should_execute=true"
         ELSE "Decision should_execute=false">>

\* the audit trail of the decision
decision_steps(is_profitable, meets_spread_threshold, should_execute) ==
    (IF ~is_profitable THEN <<"Not profitable">> ELSE <<>>)
    \o (IF ~meets_spread_threshold THEN <<"Spread below threshold">> ELSE <<>>)
    \o <<IF should_execute THEN "Decision should_execute=true"
         ELSE "Decision should_execute=false">>

\* lines 432-474: the decision, its audit trail and min_out
Decide(arb_a_b, arb_b_a, chosen) ==
    LET is_profitable == is_profitable_of(chosen.arb)
        meets_spread_threshold ==
            meets_spread_threshold_of(prices.spread_bps_val, cfg.spread_threshold_bps)
        should_execute == should_execute_of(is_profitable, meets_spread_threshold)
    IN  /\ quotes' = [arb_a_b |-> arb_a_b, arb_b_a |-> arb_b_a, chosen |-> chosen]
        /\ decision' = [is_profitable |-> is_profitable,
                        meets_spread_threshold |-> meets_spread_threshold,
                        should_execute |-> should_execute]
        /\ min_out' = calculate_min_out(chosen.arb.amount_out_2_raw, cfg.slippage_bps)
        /\ steps' = steps \o <<"Direction", "Flow">>
                       \o decision_steps(is_profitable, meets_spread_threshold,
                                         should_execute)
                       \o <<"min_out">>
        /\ pc' = "build_tx"

\* lines 366-386: the direction; a division by zero in a quote ends the run
Choose(arb_a_b, arb_b_a) ==
    IF arb_a_b.panics \/ arb_b_a.panics
    THEN /\ pc' = "panicked"
         /\ UNCHANGED <<quotes, decision, min_out, steps>>
    ELSE Decide(arb_a_b, arb_b_a,
                choose_direction(arb_a_b, arb_b_a, prices.price_a, prices.price_b))

\* lines 346-360: the quotes of both directions
Evaluate ==
    /\ pc = "evaluate"
    /\ Choose(calculate_pnl(cfg.amount_in, pool_a_values, pool_b_values,
                            rent_raw, cfg.priority_fee_microlamports),
              calculate_pnl(cfg.amount_in, pool_b_values, pool_a_values,
                            rent_raw, cfg.priority_fee_microlamports))
    /\ UNCHANGED <<cfg, chain, rpc_log, pool_a, pool_b, pool_a_values, pool_b_values,
                   prices, atas, rent_raw, tx, outcome, report, sw>>

(***************************************************************************)
(* main.rs 476-494: the transaction                                        *)
(***************************************************************************)
PoolDataOf(label) == IF label = "PoolA" THEN pool_a ELSE pool_b

\* create_arbitrage_transaction(rpc, keypair, pool_in, pool_out, amount_in_raw,
\* .., min_out, priority_fee): pool_in is its first pool parameter
\* (expensive_pool), pool_out its second (cheap_pool).  Its own two account
\* lookups, then the blockhash fetch, whose failure ends the run.
BuildTx ==
    /\ pc = "build_tx"
    /\ LET pool_in == PoolDataOf(quotes.chosen.first_label)
           pool_out == PoolDataOf(quotes.chosen.second_label)
           t0 == AtaTarget(pool_out.state.token0_mint)
           t1 == AtaTarget(pool_out.state.token1_mint)
       IN  \E l0 \in Lookups, l1 \in Lookups :
              LET log == rpc_log \o <<Call("get_account", t0, l0 # "failed"),
                                      Call("get_account", t1, l1 # "failed")>>
              IN  \/ /\ Abort(log \o <<Call("get_latest_blockhash", "blockhash", FALSE)>>)
                     /\ UNCHANGED tx
                  \/ /\ rpc_log' = log \o <<Call("get_latest_blockhash", "blockhash", TRUE)>>
                     /\ tx' = create_arbitrage_transaction(
                                  pool_in, pool_out, quotes.chosen.arb.amount_in_raw,
                                  min_out, cfg.priority_fee_microlamports, l0, l1)
                     /\ pc' = "dispatch"
    /\ UNCHANGED <<cfg, chain, pool_a, pool_b, pool_a_values, pool_b_values, prices,
                   atas, rent_raw, quotes, decision, min_out, outcome, steps, report, sw>>

(***************************************************************************)
(* main.rs 496-556: simulate, send or skip                                 *)
(***************************************************************************)
\* the branch taken with the test on should_execute left out
dispatch_mode_always_send(simulate_only, should_execute) ==
    IF simulate_only THEN "simulate" ELSE "send"

\* the branch taken: simulate_only first, then should_execute
dispatch_mode(simulate_only, should_execute) ==
    IF simulate_only THEN "simulate"
    ELSE IF should_execute THEN "send"
    ELSE "skip"

\* what the simulation can come back with, and what a send can
SimulateResults == {"ok", "rejected", "call_failed"}

SendResults == {"ok", "failed"}

\* lines 504-532: the three arms of the match on simulate_transaction
simulate_outcome(result) ==
    [mode |-> "simulate",
     tx_signature |-> "none",
     simulate_result |-> CASE result = "ok" -> "ok"
                           [] result = "rejected" -> "rejected"
                           [] OTHER -> "none",
     tx_error |-> CASE result = "ok" -> "none"
                    [] result = "rejected" -> "simulation rejected"
                    [] OTHER -> "simulate call failed"]

\* a send that records a signature whatever came back
send_outcome_signed(result) ==
    [mode |-> "send", tx_signature |-> "signature", simulate_result |-> "none",
     tx_error |-> IF result = "ok" THEN "none" ELSE "send failed"]

\* lines 536-547: the two arms of the match on send_and_confirm_transaction
send_outcome(result) ==
    [mode |-> "send",
     tx_signature |-> IF result = "ok" THEN "signature" ELSE "none",
     simulate_result |-> "none",
     tx_error |-> IF result = "ok" THEN "none" ELSE "send failed"]

Simulate ==
    /\ dispatch_mode(cfg.simulate_only, decision.should_execute) = "simulate"
    /\ \E result \in SimulateResults :
          /\ outcome' = simulate_outcome(result)
          /\ steps' = steps \o <<"simulate_only=true -> simulate",
                                 IF result = "ok" THEN "simulation OK"
                                 ELSE "simulation ERROR">>
          /\ rpc_log' = Append(rpc_log, Call("simulate_transaction", "tx",
                                             result # "call_failed"))

Send ==
    /\ dispatch_mode(cfg.simulate_only, decision.should_execute) = "send"
    /\ \E result \in SendResults :
          /\ outcome' = send_outcome(result)
          /\ steps' = steps \o <<"simulate_only=false & should_execute=true -> send",
                                 IF result = "ok" THEN "send OK" ELSE "send ERROR">>
          /\ rpc_log' = Append(rpc_log, Call("send_and_confirm_transaction", "tx",
                                             result = "ok"))

Skip ==
    /\ dispatch_mode(cfg.simulate_only, decision.should_execute) = "skip"
    /\ outcome' = [mode |-> "skip", tx_signature |-> "none",
                   simulate_result |-> "none", tx_error |-> "none"]
    /\ steps' = Append(steps, "skip execution")
    /\ UNCHANGED rpc_log

Dispatch ==
    /\ pc = "dispatch"
    /\ (Simulate \/ Send \/ Skip)
    /\ pc' = "report"
    /\ UNCHANGED <<cfg, chain, pool_a, pool_b, pool_a_values, pool_b_values, prices,
                   atas, rent_raw, quotes, decision, min_out, tx, report, sw>>

(***************************************************************************)
(* main.rs 558-725: the report                                             *)
(***************************************************************************)
\* the report is built from the values of the run; fs::write may fail
WriteFailed ==
    /\ pc = "report"
    /\ pc' = "write_failed"
    /\ UNCHANGED <<cfg, chain, rpc_log, pool_a, pool_b, pool_a_values, pool_b_values,
                   prices, atas, rent_raw, quotes, decision, min_out, tx, outcome,
                   steps, report, sw>>

WriteReport ==
    /\ pc = "report"
    /\ report' = [decision |-> decision,
                  chosen_direction |-> <<quotes.chosen.first_label,
                                         quotes.chosen.second_label>>,
                  tx |-> [mode |-> IF cfg.simulate_only THEN "simulate"
                                   ELSE IF decision.should_execute THEN "send"
                                   ELSE "skip",
                          signature |-> outcome.tx_signature,
                          simulate_result |-> outcome.simulate_result,
                          error |-> outcome.tx_error],
                  steps |-> steps]
    /\ pc' = "done"
    /\ UNCHANGED <<cfg, chain, rpc_log, pool_a, pool_b, pool_a_values, pool_b_values,
                   prices, atas, rent_raw, quotes, decision, min_out, tx, outcome,
                   steps, sw>>

Next ==
    \/ LoadPoolA
    \/ LoadPoolB
    \/ GetValuesA
    \/ GetValuesB
    \/ NormalizeAndPrice
    \/ LookupAtas
    \/ RentQuery
    \/ Evaluate
    \/ BuildTx
    \/ Dispatch
    \/ WriteReport
    \/ WriteFailed

Spec == Init /\ [][Next]_vars

(***************************************************************************)
(* arbitrage.rs 84-98 on its own: one call of calculate_swap_output_raw    *)
(* with arguments drawn from the tables below                              *)
(***************************************************************************)
\* how many entries of each table a call may draw its arguments from
MaxSwapSample == 4

SwapAmount(i) ==
    CASE i = 1 -> BN(10000)
      [] i = 2 -> U64Max
      [] i = 3 -> Zero
      [] i = 4 -> One
      [] OTHER -> TwoTo63

SwapReserve(i) ==
    CASE i = 1 -> BN(1000000)
      [] i = 2 -> BN(2000000)
      [] i = 3 -> U64Max
      [] i = 4 -> Zero
      [] OTHER -> BN(3)

SwapFeeRate(i) ==
    CASE i = 1 -> BN(2500)
      [] i = 2 -> Zero
      [] i = 3 -> BN(1000000)
      [] i = 4 -> BN(999999)
      [] OTHER -> One

SwapCalls ==
    [amount_in : {SwapAmount(i) : i \in 1..MaxSwapSample},
     reserve_in : {SwapReserve(i) : i \in 1..MaxSwapSample},
     reserve_out : {SwapReserve(i) : i \in 1..MaxSwapSample},
     trade_fee_rate : {SwapFeeRate(i) : i \in 1..MaxSwapSample},
     frame : {Absent}]

InitSwap ==
    /\ pc = "swap_call"
    /\ cfg = Absent
    /\ chain = Absent
    /\ RunFresh
    /\ sw \in SwapCalls

SwapCall ==
    /\ pc = "swap_call"
    /\ sw' = [sw EXCEPT !.frame = calculate_swap_output_raw(
                             sw.amount_in, sw.reserve_in, sw.reserve_out,
                             sw.trade_fee_rate)]
    /\ pc' = "swap_returned"
    /\ UNCHANGED <<cfg, chain, rpc_log, pool_a, pool_b, pool_a_values, pool_b_values,
                   prices, atas, rent_raw, quotes, decision, min_out, tx, outcome,
                   steps, report>>

NextSwap == SwapCall

SpecSwap == InitSwap /\ [][NextSwap]_vars

\* calculate_min_out on its own: one call on sampled arguments
MaxMinOutSample == 8

MinOutAmount(i) ==
    CASE i = 1 -> BN(1000)
      [] i = 2 -> BN(10000)
      [] i = 3 -> BAdd(TwoTo53, BN(3))
      [] i = 4 -> U64Max
      [] i = 5 -> Zero
      [] i = 6 -> BN(1000000)
      [] i = 7 -> BN(20000)
      [] i = 8 -> BAdd(TwoTo53, One)
      [] OTHER -> BN(i)

MinOutSlippage(i) ==
    CASE i = 1 -> 500
      [] i = 2 -> 9999
      [] i = 3 -> 0
      [] i = 4 -> 10000
      [] i = 5 -> 1
      [] i = 6 -> 5000
      [] i = 7 -> 100
      [] i = 8 -> 9900
      [] OTHER -> i

InitMinOut ==
    /\ pc = "min_out_call"
    /\ cfg = Absent
    /\ chain = Absent
    /\ RunFresh
    /\ sw \in [amount_out : {MinOutAmount(i) : i \in 1..MaxMinOutSample},
                slippage_bps : {MinOutSlippage(i) : i \in 1..MaxMinOutSample},
                min_out : {Absent}]

MinOutCall ==
    /\ pc = "min_out_call"
    /\ sw' = [sw EXCEPT !.min_out = calculate_min_out(sw.amount_out, sw.slippage_bps)]
    /\ pc' = "min_out_returned"
    /\ UNCHANGED <<cfg, chain, rpc_log, pool_a, pool_b, pool_a_values, pool_b_values,
                   prices, atas, rent_raw, quotes, decision, min_out, tx, outcome,
                   steps, report>>

NextMinOut == MinOutCall

SpecMinOut == InitMinOut /\ [][NextMinOut]_vars

(***************************************************************************)
(* cli.rs 454-478 and main.rs 167-196: the state file and the config       *)
(* commands                                                                *)
(***************************************************************************)
\* the variables of a run of the arbitrage, untouched by a config command
run_vars == <<cfg, chain, rpc_log, pool_a, pool_b, pool_a_values, pool_b_values,
              prices, atas, rent_raw, quotes, decision, min_out, tx, outcome, steps,
              report>>

\* AppState as shipped; a field holds "default", "entered" or "none"
default_state ==
    [pool_a |-> "default", pool_b |-> "default", mint_in |-> "default",
     mint_out |-> "default", amount_in |-> "default",
     spread_threshold_bps |-> "default", slippage_bps |-> "default",
     priority_fee_microlamports |-> "default", simulate_only |-> "default",
     rpc_url |-> "default", keypair_path |-> "default"]

\* how many write calls write_all needs for the serialised state
MaxWriteChunks == 2

\* a file that does not exist, and a file holding the first `written`
\* chunks of the serialisation of st
Missing == [missing |-> TRUE]

FileOf(st, written) == [data |-> st, written |-> written]

\* writing straight to the state file
save_in_place == "state"

\* path.with_extension("json.tmp")
save_tmp_path == "tmp"

ConfigCmds ==
    {"show", "reset_defaults", "set_pools", "set_rpc_url", "set_keypair",
     "set_amount_in", "set_spread_threshold_bps", "set_slippage_bps",
     "set_priority_fee", "set_simulate"}

\* what a config command that gets as far as saving has done to the state
config_apply(cmd, st, v, changed) ==
    CASE cmd = "reset_defaults" -> default_state
      [] cmd = "set_pools" ->
           IF changed
           THEN [st EXCEPT !.pool_a = v, !.pool_b = v, !.mint_in = v,
                           !.mint_out = v, !.amount_in = v]
           ELSE [st EXCEPT !.pool_a = v, !.pool_b = v]
      [] cmd = "set_rpc_url" -> [st EXCEPT !.rpc_url = v]
      [] cmd = "set_keypair" -> [st EXCEPT !.keypair_path = v]
      [] cmd = "set_amount_in" -> [st EXCEPT !.mint_in = v, !.mint_out = v, !.amount_in = v]
      [] cmd = "set_spread_threshold_bps" -> [st EXCEPT !.spread_threshold_bps = v]
      [] cmd = "set_slippage_bps" -> [st EXCEPT !.slippage_bps = v]
      [] cmd = "set_priority_fee" -> [st EXCEPT !.priority_fee_microlamports = v]
      [] cmd = "set_simulate" -> [st EXCEPT !.simulate_only = v]
      [] OTHER -> st

\* sw holds the two files, the AppState in memory, the state file as it was
\* when the command under way began, and where save_state returns to
InitSave ==
    /\ pc = "load_state"
    /\ cfg = Absent
    /\ chain = Absent
    /\ RunFresh
    /\ \E f \in {Missing, FileOf(default_state, MaxWriteChunks),
                   FileOf([default_state EXCEPT !.rpc_url = "none"], MaxWriteChunks)} :
          sw = [fs |-> [state |-> f, tmp |-> Missing], mem |-> Absent,
                previous |-> f, ret |-> "none"]

\* load_state: a missing file is created from the defaults
LoadState ==
    /\ pc = "load_state"
    /\ IF sw.fs.state = Missing
       THEN /\ sw' = [sw EXCEPT !.mem = default_state, !.ret = "command"]
            /\ pc' = "save_create"
       ELSE /\ sw' = [sw EXCEPT !.mem = sw.fs.state.data]
            /\ pc' = "command"
    /\ UNCHANGED run_vars

\* one config command: it fails or shows without saving, or changes the
\* state in memory and saves it
ConfigCmd ==
    /\ pc = "command"
    /\ \/ /\ pc' = "done"
          /\ UNCHANGED sw
       \/ \E cmd \in ConfigCmds \ {"show"}, v \in {"entered"}, changed \in BOOLEAN :
             /\ sw' = [sw EXCEPT !.mem = config_apply(cmd, sw.mem, v, changed),
                                 !.previous = sw.fs.state,
                                 !.ret = "done"]
             /\ pc' = "save_create"
    /\ UNCHANGED run_vars

\* save_state, File::create(&tmp): the file exists and is empty
SaveCreate ==
    /\ pc = "save_create"
    /\ sw' = [sw EXCEPT !.fs[save_tmp_path] = FileOf(sw.mem, 0)]
    /\ pc' = "save_write"
    /\ UNCHANGED run_vars

\* f.write_all(&data): one write call
SaveWrite ==
    /\ pc = "save_write"
    /\ sw' = [sw EXCEPT !.fs[save_tmp_path].written = @ + 1]
    /\ pc' = IF sw.fs[save_tmp_path].written + 1 = MaxWriteChunks
             THEN "save_sync" ELSE "save_write"
    /\ UNCHANGED run_vars

\* f.sync_all(): from here on the temporary file survives a crash whole
SaveSync ==
    /\ pc = "save_sync"
    /\ pc' = "save_rename"
    /\ UNCHANGED <<sw, run_vars>>

\* fs::rename(&tmp, path): the state file becomes the temporary file, in
\* one step
SaveRename ==
    /\ pc = "save_rename"
    /\ sw' = [sw EXCEPT !.fs = [state |-> sw.fs[save_tmp_path], tmp |-> Missing]]
    /\ pc' = sw.ret
    /\ UNCHANGED run_vars

\* the process dies; of a file written and not yet synced any prefix may
\* be what is left
Crash ==
    /\ pc \in {"load_state", "command", "save_create", "save_write", "save_sync",
               "save_rename"}
    /\ \/ /\ pc \in {"save_write", "save_sync"}
          /\ \E kept \in 0..sw.fs[save_tmp_path].written :
                sw' = [sw EXCEPT !.fs[save_tmp_path].written = kept]
       \/ /\ pc \notin {"save_write", "save_sync"}
          /\ UNCHANGED sw
    /\ pc' = "crashed"
    /\ UNCHANGED run_vars

NextSave ==
    \/ LoadState
    \/ ConfigCmd
    \/ SaveCreate
    \/ SaveWrite
    \/ SaveSync
    \/ SaveRename
    \/ Crash

SpecSave == InitSave /\ [][NextSave]_vars

(***************************************************************************)
(* main.rs 198-244: the runtime parameters, from the flags or the state    *)
(***************************************************************************)
\* the stored value alone decides, the flag only filling a gap
take_or_panic_stored_first(flag, stored, name) ==
    IF stored # "none" THEN [ok |-> TRUE, v |-> stored]
    ELSE IF flag # "none" THEN [ok |-> TRUE, v |-> flag]
    ELSE [ok |-> FALSE, v |-> name]

\* take_or_panic: the flag, else the stored value, else a panic that
\* names the parameter
take_or_panic(flag, stored, name) ==
    IF flag # "none" THEN [ok |-> TRUE, v |-> flag]
    ELSE IF stored # "none" THEN [ok |-> TRUE, v |-> stored]
    ELSE [ok |-> FALSE, v |-> name]

\* Option::expect on a field of the state, which no flag can supply
expect_stored(stored, name) ==
    IF stored # "none" THEN [ok |-> TRUE, v |-> stored] ELSE [ok |-> FALSE, v |-> name]

\* the parameters in the order main resolves them: the flag (if there is
\* one), the field of the state, and the name the error gives
ParamOrder ==
    <<[flag |-> "rpc_url", stored |-> "rpc_url", name |-> "rpc-url"],
      [flag |-> "keypair", stored |-> "keypair_path", name |-> "keypair"],
      [flag |-> "amount_in", stored |-> "amount_in", name |-> "amount-in"],
      [flag |-> "spread_threshold_bps", stored |-> "spread_threshold_bps",
       name |-> "spread-threshold-bps"],
      [flag |-> "slippage_bps", stored |-> "slippage_bps", name |-> "slippage-bps"],
      [flag |-> "priority_fee", stored |-> "priority_fee_microlamports",
       name |-> "priority-fee"],
      [flag |-> "simulate_only", stored |-> "simulate_only", name |-> "simulate-only"],
      [flag |-> "", stored |-> "mint_in", name |-> "mint-in"],
      [flag |-> "", stored |-> "mint_out", name |-> "mint-out"],
      [flag |-> "", stored |-> "pool_a", name |-> "pool-a"],
      [flag |-> "", stored |-> "pool_b", name |-> "pool-b"]>>

\* how many fields of the stored state may be unset at once
MaxMissingStored == 1

\* sw holds the flags given, the state loaded (with at most
\* MaxMissingStored fields unset), the values resolved so far, the panic
\* message and the number of network calls made
InitResolve ==
    /\ pc = "resolve"
    /\ cfg = Absent
    /\ chain = Absent
    /\ RunFresh
    /\ \E cli \in [{ParamOrder[i].flag : i \in 1..7} -> {"none", "flag"}],
          st \in [DOMAIN default_state -> {"none", "stored"}] :
          /\ Cardinality({f \in DOMAIN st : st[f] = "none"}) <= MaxMissingStored
          /\ sw = [cli |-> cli, state |-> st, resolved |-> <<>>, panic |-> "none",
                   network_calls |-> 0]

\* main.rs 199-213: the next take_or_panic
ResolveParam ==
    /\ pc = "resolve"
    /\ Len(sw.resolved) < 7
    /\ LET p == ParamOrder[Len(sw.resolved) + 1]
           r == take_or_panic(sw.cli[p.flag], sw.state[p.stored], p.name)
       IN  IF r.ok
           THEN /\ sw' = [sw EXCEPT !.resolved = Append(@, r.v)]
                /\ pc' = "resolve"
           ELSE /\ sw' = [sw EXCEPT !.panic = r.v]
                /\ pc' = "panicked"
    /\ UNCHANGED run_vars

\* main.rs 229-240: the mints and the pools, from the state only
ExpectStored ==
    /\ pc = "resolve"
    /\ Len(sw.resolved) \in 7..10
    /\ LET p == ParamOrder[Len(sw.resolved) + 1]
           r == expect_stored(sw.state[p.stored], p.name)
       IN  IF r.ok
           THEN /\ sw' = [sw EXCEPT !.resolved = Append(@, r.v)]
                /\ pc' = "resolve"
           ELSE /\ sw' = [sw EXCEPT !.panic = r.v]
                /\ pc' = "panicked"
    /\ UNCHANGED run_vars

\* main.rs 244: PoolData::new for pool A makes the first network call
FirstNetworkCall ==
    /\ pc = "resolve"
    /\ Len(sw.resolved) = 11
    /\ sw' = [sw EXCEPT !.network_calls = 1]
    /\ pc' = "loading_pools"
    /\ UNCHANGED run_vars

NextResolve ==
    \/ ResolveParam
    \/ ExpectStored
    \/ FirstNetworkCall

SpecResolve == InitResolve /\ [][NextResolve]_vars

(***************************************************************************)
(* pool.rs 65-126: get_values and normalize_pool_values on their own       *)
(***************************************************************************)
\* sw holds the pool, the two vault balances fetched, the snapshots in the
\* order they were produced and the mints normalised to
InitValues ==
    /\ pc = "values_call"
    /\ cfg = Absent
    /\ chain = Absent
    /\ RunFresh
    /\ \E i \in 1..MaxPoolSample, l \in Layouts :
          \E v0 \in {ChainPool(i, l).vault0, Zero,
                      BAdd(ChainPool(i, l).state.protocol_fees_token0,
                           ChainPool(i, l).state.fund_fees_token0)},
             v1 \in {ChainPool(i, l).vault1, Zero,
                      BAdd(ChainPool(i, l).state.protocol_fees_token1,
                           ChainPool(i, l).state.fund_fees_token1)} :
             sw = [pool |-> PoolData_new("Pool", ChainPool(i, l)),
                   vault_amount0 |-> v0, vault_amount1 |-> v1,
                   trail |-> <<>>, first_mints |-> <<>>]

\* pool.get_values(&rpc), both vault reads having succeeded
GetValuesCall ==
    /\ pc = "values_call"
    /\ sw' = [sw EXCEPT !.trail = <<get_values(sw.pool, sw.vault_amount0,
                                               sw.vault_amount1)>>]
    /\ pc' = "values_returned"
    /\ UNCHANGED run_vars

\* values.normalize_pool_values(&first_mint), for either mint of the pool,
\* up to twice in a row
NormalizeCall ==
    /\ pc = "values_returned"
    /\ Len(sw.first_mints) < 2
    /\ \E first_mint \in {sw.trail[1].mint0, sw.trail[1].mint1} :
          sw' = [sw EXCEPT
                   !.trail = Append(@, normalize_pool_values(sw.trail[Len(sw.trail)],
                                                             first_mint)),
                   !.first_mints = Append(@, first_mint)]
    /\ pc' = "values_returned"
    /\ UNCHANGED run_vars

NextValues ==
    \/ GetValuesCall
    \/ NormalizeCall

SpecValues == InitValues /\ [][NextValues]_vars

(***************************************************************************)
(* Properties                                                              *)
(***************************************************************************)
\* q is floor(num / den), said with multiplication only
IsFloorDiv(q, num, den) ==
    /\ BLe(BMul(q, den), num)
    /\ BLt(num, BMul(BAdd(q, One), den))

SwapReturned == pc = "swap_returned"

SwapIsExample ==
    /\ sw.amount_in = BN(10000)
    /\ sw.reserve_in = BN(1000000)
    /\ sw.reserve_out = BN(2000000)
    /\ sw.trade_fee_rate = BN(2500)

\* C1: for u64 arguments and a fee rate of at most 1_000_000 ppm,
\* calculate_swap_output_raw charges fee = floor(amount_in * rate / 1_000_000),
\* keeps net_in = amount_in - fee and, when reserve_in + net_in > 0, returns
\* floor(net_in * reserve_out / (reserve_in + net_in)); the call
\* (10_000, 1_000_000, 2_000_000, 2_500) returns 19_752 and a zero rate
\* gives floor(a * r_out / (r_in + a)).
C1_SwapOutputIsFloor ==
    SwapReturned =>
        /\ BLe(sw.trade_fee_rate, PowTen(6))
        /\ IsFloorDiv(sw.frame.fees, BMul(sw.amount_in, sw.trade_fee_rate), PowTen(6))
        /\ BAdd(sw.frame.net_in, sw.frame.fees) = sw.amount_in
        /\ (BAdd(sw.reserve_in, sw.frame.net_in) # Zero =>
               /\ ~sw.frame.div_by_zero
               /\ IsFloorDiv(sw.frame.amount_out,
                             BMul(sw.frame.net_in, sw.reserve_out),
                             BAdd(sw.reserve_in, sw.frame.net_in)))
        /\ (SwapIsExample =>
               /\ sw.frame.fees = BN(25)
               /\ sw.frame.net_in = BN(9975)
               /\ sw.frame.amount_out = BN(19752))
        /\ (sw.trade_fee_rate = Zero /\ BAdd(sw.reserve_in, sw.amount_in) # Zero =>
               IsFloorDiv(sw.frame.amount_out,
                          BMul(sw.amount_in, sw.reserve_out),
                          BAdd(sw.reserve_in, sw.amount_in)))

\* the example call has returned 19_752
C1_Witness == SwapReturned /\ SwapIsExample /\ sw.frame.amount_out = BN(19752)

\* both quotes have just been computed and the direction chosen
Quoted == pc = "build_tx"

BothPnl == quotes.arb_a_b.pnl.some /\ quotes.arb_b_a.pnl.some

NeitherPnl == ~quotes.arb_a_b.pnl.some /\ ~quotes.arb_b_a.pnl.some

\* one direction's quote: leg 1 on X, leg 2 back on Y, and the exact difference
QuoteIsExact(q, X, Y) ==
    /\ q.amount_out_1_raw =
           calculate_swap_output_raw(q.amount_in_raw, X.reserve0, X.reserve1,
                                     X.trade_fee_rate).amount_out
    /\ q.amount_out_2_raw =
           calculate_swap_output_raw(q.amount_out_1_raw, Y.reserve1, Y.reserve0,
                                     Y.trade_fee_rate).amount_out
    /\ q.gross_profit_raw = SubI128(q.amount_out_2_raw, q.amount_in_raw)
    /\ (BLt(q.amount_out_2_raw, q.amount_in_raw) => q.gross_profit_raw.neg)

\* C2: in each direction out1 is the swap of amount_in_raw on the first pool,
\* out2 the swap of out1 back on the second pool, and gross_profit_raw is
\* out2 - amount_in_raw as an exact signed integer, negative whenever
\* out2 < amount_in_raw.
C2_GrossProfitExact ==
    Quoted =>
        /\ QuoteIsExact(quotes.arb_a_b, pool_a_values, pool_b_values)
        /\ QuoteIsExact(quotes.arb_b_a, pool_b_values, pool_a_values)

\* the chosen direction is this quote, with its own labels and prices
ChosenIs(arb, first_label, second_label, price_first, price_second) ==
    /\ quotes.chosen.arb = arb
    /\ quotes.chosen.first_label = first_label
    /\ quotes.chosen.second_label = second_label
    /\ quotes.chosen.price_first = price_first
    /\ quotes.chosen.price_second = price_second

ChosenAtoB == ChosenIs(quotes.arb_a_b, "PoolA", "PoolB", prices.price_a, prices.price_b)

ChosenBtoA == ChosenIs(quotes.arb_b_a, "PoolB", "PoolA", prices.price_b, prices.price_a)

DirectionsTie ==
    \/ BothPnl /\ FracEq(quotes.arb_a_b.pnl.v, quotes.arb_b_a.pnl.v)
    \/ NeitherPnl /\ FracEq(quotes.arb_a_b.gross_profit, quotes.arb_b_a.gross_profit)

\* C4: when the two directions tie on the metric in use, the first-evaluated
\* direction A->B (PoolA first, PoolB second) is kept.
C4_TieKeepsAtoB ==
    Quoted /\ DirectionsTie =>
        quotes.chosen.first_label = "PoolA" /\ quotes.chosen.second_label = "PoolB"

\* C5: when exactly one quote has a defined pnl, that quote is the chosen
\* one, whatever the gross profits are.
C5_DefinedPnlPreferred ==
    Quoted /\ (quotes.arb_a_b.pnl.some # quotes.arb_b_a.pnl.some) =>
        quotes.chosen.arb.pnl.some

\* the decision has just been taken
Decided == pc = "build_tx"

\* C6: is_profitable is pnl > 0 when the chosen quote's pnl is defined and
\* gross_profit > 0 when it is absent, and should_execute is is_profitable
\* and meets_spread_threshold together.
C6_DecisionRule ==
    Decided =>
        /\ decision.is_profitable =
              (IF quotes.chosen.arb.pnl.some
               THEN FracGt(quotes.chosen.arb.pnl.v, FracZero)
               ELSE FracGt(quotes.chosen.arb.gross_profit, FracZero))
        /\ decision.should_execute =
              (decision.is_profitable /\ decision.meets_spread_threshold)

\* a chosen quote whose gross profit is positive and whose defined pnl is
\* not: judged unprofitable, and not executed
C6_Witness ==
    /\ Decided
    /\ quotes.chosen.arb.pnl.some
    /\ FracPositive(quotes.chosen.arb.gross_profit)
    /\ ~FracPositive(quotes.chosen.arb.pnl.v)
    /\ ~decision.is_profitable
    /\ ~decision.should_execute

\* |x|
FracAbs(x) == Frac(FALSE, x.n, x.d)

\* `x.abs() >= t as f64`
F64AbsGeInt(x, t) == CASE x.k = "num" -> FracGe(FracAbs(x.v), Frac(FALSE, t, One))
                       [] x.k = "inf" -> TRUE
                       [] OTHER -> FALSE

\* C7: meets_spread_threshold is true exactly when the absolute value of the
\* signed spread in basis points is at least the configured threshold.
C7_AbsSpreadMeetsThreshold ==
    Decided =>
        decision.meets_spread_threshold =
            F64AbsGeInt(prices.spread_bps_val, BN(cfg.spread_threshold_bps))

\* how often a call of this name was attempted
CallCount(name) == Cardinality({i \in DOMAIN rpc_log : rpc_log[i].call = name})

HasStep(s) == \E i \in DOMAIN steps : steps[i] = s

\* the dispatcher has run
Dispatched == pc \in {"report", "done", "write_failed"}

\* C8: a run that reaches dispatch does exactly one of simulate, send and
\* skip: it simulates iff simulate_only, sends iff simulate_only is false
\* and should_execute is true, and otherwise submits nothing and records a
\* skip step; nothing is simulated or sent anywhere else.
C8_DispatchModes ==
    /\ Dispatched =>
          /\ outcome.mode \in {"simulate", "send", "skip"}
          /\ (outcome.mode = "simulate") = cfg.simulate_only
          /\ (outcome.mode = "send") = (~cfg.simulate_only /\ decision.should_execute)
          /\ CallCount("simulate_transaction") = (IF cfg.simulate_only THEN 1 ELSE 0)
          /\ CallCount("send_and_confirm_transaction") =
                (IF ~cfg.simulate_only /\ decision.should_execute THEN 1 ELSE 0)
          /\ HasStep("skip execution") = (outcome.mode = "skip")
    /\ ~Dispatched =>
          /\ outcome.mode = "none"
          /\ CallCount("simulate_transaction") = 0
          /\ CallCount("send_and_confirm_transaction") = 0

\* a run that simulated although the decision was not to execute
C8_Witness ==
    /\ pc = "done"
    /\ cfg.simulate_only
    /\ ~decision.should_execute
    /\ outcome.mode = "simulate"
    /\ CallCount("simulate_transaction") = 1

\* the simulation was rejected, or the simulate call or the send failed
DispatchFailed == outcome.tx_error # "none"

\* what holds of a run whose dispatch failed
FailureRecorded ==
    Dispatched /\ DispatchFailed =>
        /\ outcome.tx_signature = "none"
        /\ (HasStep("simulation ERROR") \/ HasStep("send ERROR"))
        /\ (pc = "done" =>
               /\ report.tx.error = outcome.tx_error
               /\ report.tx.signature = "none"
               /\ report.decision = decision)

SignatureOnlyAfterSend ==
    outcome.tx_signature # "none" =>
        /\ outcome.tx_error = "none"
        /\ rpc_log[Len(rpc_log)] = Call("send_and_confirm_transaction", "tx", TRUE)

\* dispatch always hands over to the report, whatever came back, and
\* neither step touches the decision
DispatchGoesOn ==
    /\ pc = "dispatch" => pc' = "report" /\ decision' = decision
    /\ pc = "report" => pc' \in {"done", "write_failed"} /\ decision' = decision
                        /\ outcome' = outcome

\* C9: a rejected simulation, a failed simulate call and a failed send are
\* not fatal: the error is recorded in tx.error and in the audit trail, the
\* signature stays absent, the decision is unchanged, and the run goes on to
\* the report; a signature is recorded only after a successful send.
C9_DispatchErrorsNonFatal ==
    /\ [](FailureRecorded /\ SignatureOnlyAfterSend)
    /\ [][DispatchGoesOn]_vars

\* a run whose send failed and whose report says so
C9_Witness ==
    /\ pc = "done"
    /\ outcome.mode = "send"
    /\ outcome.tx_error = "send failed"
    /\ report.tx.error = "send failed"
    /\ report.tx.signature = "none"

\* a call made before dispatch
PipelineCall(i) ==
    rpc_log[i].call \notin {"simulate_transaction", "send_and_confirm_transaction"}

\* C10: every external call before dispatch is attempted at most once, and a
\* transport failure of any of them aborts the run at once: it is the last
\* call made, and nothing is built, simulated or sent after it.
C10_FailFast ==
    /\ \A i \in DOMAIN rpc_log :
          PipelineCall(i) /\ ~rpc_log[i].ok => pc = "aborted" /\ i = Len(rpc_log)
    /\ \A i, j \in DOMAIN rpc_log :
          PipelineCall(i) /\ PipelineCall(j) /\ i # j =>
              rpc_log[i].target # rpc_log[j].target

MinOutReturned == pc = "min_out_returned"

\* C11: calculate_min_out(amount_out, slippage_bps) is
\* floor(amount_out * (10000 - slippage_bps) / 10000) for every amount_out and
\* every slippage_bps in 0..10000, and never exceeds amount_out.
C11_MinOutIsFloor ==
    MinOutReturned /\ sw.slippage_bps \in 0..10000 =>
        /\ IsFloorDiv(sw.min_out, BMul(sw.amount_out, BN(10000 - sw.slippage_bps)), BN(10000))
        /\ BLe(sw.min_out, sw.amount_out)

\* the transaction has been assembled
Assembled == pc \in {"dispatch", "report", "done", "write_failed"}

IsSwap(ix, amount_in, min_amount_out) ==
    /\ ix.kind = "swap"
    /\ ix.amount_in = amount_in
    /\ ix.min_amount_out = min_amount_out

\* C12: every assembled transaction is, in order, the compute-unit limit of
\* 400_000 and the compute-unit price of the configured priority fee, then
\* zero, one or two token-account creations, then the leg-1 swap (the input
\* amount, minimum 0), then the leg-2 swap (everything received, minimum
\* min_out); no creation or budget instruction follows a swap.
C12_InstructionOrder ==
    Assembled =>
        /\ Len(tx) \in 4..6
        /\ tx[1] = [kind |-> "set_compute_unit_limit", units |-> 400000]
        /\ tx[2] = [kind |-> "set_compute_unit_price",
                    price |-> cfg.priority_fee_microlamports]
        /\ \A i \in 3..(Len(tx) - 2) : tx[i].kind = "create_ata"
        /\ IsSwap(tx[Len(tx) - 1], quotes.chosen.arb.amount_in_raw, Zero)
        /\ IsSwap(tx[Len(tx)], U64Max, min_out)

\* a transaction with both creations between the budget and the swaps
C12_Witness ==
    /\ pc = "dispatch"
    /\ Len(tx) = 6
    /\ tx[3].kind = "create_ata"
    /\ tx[4].kind = "create_ata"
    /\ tx[5].kind = "swap"

\* the wrapped native mint (spl_token::native_mint::ID)
IsNativeMint(mint) == mint = "SOL"

\* instruction i creates the user's account of the wrapped native mint
CreatesNativeAccount(i) == tx[i].kind = "create_ata" /\ IsNativeMint(tx[i].mint)

\* after instruction i and before the leg-1 swap: a transfer of exactly the
\* leg-1 input amount, and after it a balance sync
FundedAndSynced(i) ==
    \E j, k \in DOMAIN tx :
        /\ i < j /\ j < k /\ k < Len(tx) - 1
        /\ tx[j].kind = "transfer"
        /\ tx[j].lamports = quotes.chosen.arb.amount_in_raw
        /\ tx[k].kind = "sync_native"

\* C13: in every assembled transaction a creation of the user's account of
\* the wrapped native mint is followed by a funding transfer of exactly the
\* leg-1 input amount and then by a balance sync, in that order and all
\* before the leg-1 swap.
C13_NativeAccountFunded ==
    Assembled => \A i \in DOMAIN tx : CreatesNativeAccount(i) => FundedAndSynced(i)

\* the snapshots have been normalised
Normalized == HasStep("Prices")

Oriented(v) == v.mint0 = cfg.mint_in /\ v.mint1 = MintOut(cfg)

\* the pool trades the configured pair, in either order
TradesPair(pool) ==
    {pool.state.token0_mint, pool.state.token1_mint} = {cfg.mint_in, MintOut(cfg)}

\* C14: once normalised, both snapshots have mint0 = mint_in and
\* mint1 = mint_out; and when a pool does not trade the pair
\* {mint_in, mint_out} the run stops before any quote: nothing is evaluated,
\* decided or assembled.
C14_OrientedOrRejected ==
    /\ Normalized => Oriented(pool_a_values) /\ Oriented(pool_b_values)
    /\ Normalized /\ ~(TradesPair(pool_a) /\ TradesPair(pool_b)) =>
           pc \in {"token_accounts", "rent", "evaluate", "aborted"} /\ quotes = Absent

\* the rent has been worked out
RentKnown == HasStep("ATAs")

\* how many of the two token accounts were observed absent
AbsentCount == Cardinality({i \in 1..2 : ~atas[i].exists})

\* C15: rent_raw is the rent of one account times the number of the user's
\* two token accounts (of mint_in and of mint_out) observed absent: 0, 1 or 2
\* rents, a present account adding nothing and an absent one adding one
\* rent; and both directions' quotes carry that same rent_raw.
C15_RentPerAbsentAccount ==
    /\ RentKnown =>
          /\ atas[1].mint = cfg.mint_in /\ atas[2].mint = MintOut(cfg)
          /\ rent_raw = BMul(RentPerAta, BN(AbsentCount))
    /\ Quoted =>
          /\ quotes.arb_a_b.rent_raw = rent_raw
          /\ quotes.arb_b_a.rent_raw = rent_raw

\* quoted with the mint_in account present and the mint_out account absent
C15_Witness ==
    /\ Quoted
    /\ atas[1].exists /\ ~atas[2].exists
    /\ rent_raw = RentPerAta
    /\ quotes.arb_a_b.rent_raw = RentPerAta
    /\ quotes.arb_b_a.rent_raw = RentPerAta

\* the file is the whole serialisation of st
IsComplete(f, st) == f = FileOf(st, MaxWriteChunks)

\* C16: at every point of a config command, a crash included, the state
\* file is either what it was before the save began or the complete new
\* content: never partial, empty or otherwise corrupt.
C16_StateFileOldOrNew ==
    pc \in {"save_create", "save_write", "save_sync", "save_rename", "command",
            "done", "crashed"} =>
        /\ sw.fs.state = sw.previous \/ IsComplete(sw.fs.state, sw.mem)
        /\ sw.fs.state = Missing \/ sw.fs.state.written = MaxWriteChunks

\* a crash with the temporary file half written: the state file is still
\* the old one, and the state in memory differs from it
C16_Witness ==
    /\ pc = "crashed"
    /\ sw.fs.tmp # Missing
    /\ sw.fs.tmp.written = 1
    /\ sw.fs.state = sw.previous
    /\ sw.fs.state # Missing
    /\ sw.mem # sw.fs.state.data

\* what the flags and the state hold for parameter i
FlagGiven(i) == IF i <= 7 THEN sw.cli[ParamOrder[i].flag] ELSE "none"

StoredGiven(i) == sw.state[ParamOrder[i].stored]

MissingFromBoth(i) == FlagGiven(i) = "none" /\ StoredGiven(i) = "none"

Resolving == pc \in {"resolve", "loading_pools"} /\ sw.panic = "none"

\* C17: every parameter resolved so far is the flag's value when a flag was
\* given and the stored value otherwise, whatever the other parameters are;
\* a run that has stopped names a parameter missing from both sources, and
\* has made no network call; and no run gets past a parameter missing from
\* both.
C17_FlagThenStored ==
    /\ Resolving =>
          \A i \in 1..Len(sw.resolved) :
              /\ ~MissingFromBoth(i)
              /\ sw.resolved[i] = IF FlagGiven(i) # "none" THEN FlagGiven(i)
                                  ELSE StoredGiven(i)
    /\ pc = "panicked" =>
          /\ sw.network_calls = 0
          /\ \E i \in 1..11 : ParamOrder[i].name = sw.panic /\ MissingFromBoth(i)
    /\ pc = "loading_pools" => \A i \in 1..11 : ~MissingFromBoth(i)

\* the flag has won over the stored rpc-url, and the run has stopped on
\* slippage-bps, given by neither
C17_Witness ==
    /\ pc = "panicked"
    /\ sw.panic = "slippage-bps"
    /\ sw.cli["rpc_url"] = "flag" /\ sw.state.rpc_url = "stored"
    /\ sw.resolved[1] = "flag"
    /\ sw.cli["keypair"] = "none"
    /\ sw.resolved[2] = "stored"

\* the two normalised snapshots are the same pool: same pair, same
\* reserves, same fee rate below the whole
IdenticalPools ==
    /\ pool_a_values.mint0 = pool_b_values.mint0
    /\ pool_a_values.mint1 = pool_b_values.mint1
    /\ pool_a_values.reserve0 = pool_b_values.reserve0
    /\ pool_a_values.reserve1 = pool_b_values.reserve1
    /\ pool_a_values.trade_fee_rate = pool_b_values.trade_fee_rate
    /\ BLt(pool_a_values.trade_fee_rate, BN(UNITS_PER_TRADE_FEE_RATE))

\* the audit trail says why the run does not execute
ReasonRecorded == HasStep("Not profitable") \/ HasStep("Spread below threshold")

\* C18: between identical pools neither direction shows a gross profit
\* above zero, should_execute is false whatever the threshold, and the
\* audit trail holds the not-profitable or the below-threshold reason.
C18_NoSpreadNoTrade ==
    Decided /\ IdenticalPools =>
        /\ ~FracPositive(quotes.arb_a_b.gross_profit)
        /\ ~FracPositive(quotes.arb_b_a.gross_profit)
        /\ ~decision.should_execute
        /\ ReasonRecorded

\* the call on a smaller amount a1, same reserves and rate, returns, and
\* returns no more than the call made
NoMoreFrom(a1) ==
    /\ ~calculate_swap_output_raw(a1, sw.reserve_in, sw.reserve_out,
                                  sw.trade_fee_rate).div_by_zero
    /\ BLe(calculate_swap_output_raw(a1, sw.reserve_in, sw.reserve_out,
                                     sw.trade_fee_rate).amount_out,
           sw.frame.amount_out)

\* C19: for any reserve_in, reserve_out > 0 and a fee rate below
\* 1_000_000, the swap output does not decrease with the amount:
\* a1 <= a2 gives swap_output(a1) <= swap_output(a2).
C19_SwapMonotone ==
    SwapReturned /\ sw.reserve_out # Zero /\ BLt(sw.trade_fee_rate, PowTen(6)) =>
        /\ ~sw.frame.div_by_zero
        /\ \A i \in 1..MaxSwapSample :
              BLe(SwapAmount(i), sw.amount_in) => NoMoreFrom(SwapAmount(i))

\* C20: a swap of nothing returns 0 whatever the reserves and the rate, and
\* no call divides by zero: a zero denominator reserve_in + net_in is
\* turned away instead of faulting.
C20_NoDivisionByZero ==
    SwapReturned =>
        /\ ~sw.frame.div_by_zero
        /\ (sw.amount_in = Zero => sw.frame.amount_out = Zero)

ValuesReturned == pc = "values_returned"

\* side 0 and side 1 of a snapshot: the reserve is the vault balance less
\* the two fees, exactly
ReserveExact(v) ==
    /\ BAdd(v.reserve0, BAdd(v.protocol_fees_token0, v.fund_fees_token0)) = v.vault_amount0
    /\ BAdd(v.reserve1, BAdd(v.protocol_fees_token1, v.fund_fees_token1)) = v.vault_amount1

\* C21: every snapshot get_values produces has, on both sides,
\* reserve = vault_amount - protocol_fees - fund_fees as an exact
\* non-negative integer; when the fees exceed the vault balance there is no
\* snapshot, and never one with a reserve wrapped modulo 2^64.
C21_ReserveExactOrNone ==
    ValuesReturned => ReserveExact(sw.trail[1])

\* the snapshot get_values returned and the ones after each normalisation
Snapshot(k) == sw.trail[k]

NormalizedTo(mints) == ValuesReturned /\ sw.first_mints = mints

\* C22: for a snapshot s with mint0 = m and mint1 = n, normalising to m
\* gives s back in every field, normalising to n twice gives the same as
\* normalising to n once, and normalising to n and then to m gives s back.
C22_NormalizeIdempotentSelfInverse ==
    ValuesReturned =>
        /\ (Len(sw.first_mints) >= 1 /\ sw.first_mints[1] = Snapshot(1).mint0)
              => Snapshot(2) = Snapshot(1)
        /\ NormalizedTo(<<Snapshot(1).mint1, Snapshot(1).mint1>>)
              => Snapshot(3) = Snapshot(2)
        /\ NormalizedTo(<<Snapshot(1).mint1, Snapshot(1).mint0>>)
              => Snapshot(3) = Snapshot(1)

\* a snapshot with different sides has been swapped and swapped back
C22_Witness ==
    /\ NormalizedTo(<<Snapshot(1).mint1, Snapshot(1).mint0>>)
    /\ Snapshot(1).mint1 # Snapshot(1).mint0
    /\ Snapshot(2) # Snapshot(1)
    /\ Snapshot(2).reserve0 # Snapshot(2).reserve1

\* everything a snapshot says about the token named mint
SideOf(v, mint) ==
    IF v.mint0 = mint
    THEN [vault_amount |-> v.vault_amount0, protocol_fees |-> v.protocol_fees_token0,
          fund_fees |-> v.fund_fees_token0, reserve |-> v.reserve0,
          decimals |-> v.token0_decimals]
    ELSE [vault_amount |-> v.vault_amount1, protocol_fees |-> v.protocol_fees_token1,
          fund_fees |-> v.fund_fees_token1, reserve |-> v.reserve1,
          decimals |-> v.token1_decimals]

\* C27: a normalisation either changes nothing (mint0 was first_mint
\* already) or exchanges every paired field together, trade_fee_rate staying
\* as it was: after it mint0 is first_mint, each token keeps its own vault
\* amount, fees, reserve and decimals, and reserve = vault_amount -
\* protocol_fees - fund_fees holds on both sides if it held before.
C27_SideSwapAllOrNothing ==
    ValuesReturned =>
        \A k \in 1..Len(sw.first_mints) :
            /\ Snapshot(k).mint0 = sw.first_mints[k] => Snapshot(k + 1) = Snapshot(k)
            /\ Snapshot(k + 1).mint0 = sw.first_mints[k]
            /\ {Snapshot(k + 1).mint0, Snapshot(k + 1).mint1}
                  = {Snapshot(k).mint0, Snapshot(k).mint1}
            /\ \A mint \in {Snapshot(k).mint0, Snapshot(k).mint1} :
                  SideOf(Snapshot(k + 1), mint) = SideOf(Snapshot(k), mint)
            /\ Snapshot(k + 1).trade_fee_rate = Snapshot(k).trade_fee_rate
            /\ ReserveExact(Snapshot(k)) => ReserveExact(Snapshot(k + 1))

\* one normalisation that swapped the sides of a snapshot with exact,
\* different reserves and different decimals
C27_Witness ==
    /\ ValuesReturned
    /\ Len(sw.first_mints) = 1
    /\ Snapshot(2).mint0 = Snapshot(1).mint1
    /\ Snapshot(2).reserve0 = Snapshot(1).reserve1
    /\ Snapshot(2).reserve0 # Snapshot(2).reserve1
    /\ Snapshot(2).token0_decimals # Snapshot(2).token1_decimals
    /\ ReserveExact(Snapshot(1))

\* the pnl of a quote whose round trip ends on pool_out's side 0
PnlRule(arb, pool_out) ==
    /\ arb.pnl.some <=> IsNativeMint(pool_out.mint0)
    /\ arb.pnl.some => arb.pnl.v = FracSub(arb.gross_profit, arb.total_fees)
    /\ ~arb.pnl.some => arb.pnl = NoPnl

\* C23: a quote's pnl is defined exactly when the second pool's mint0, the
\* token the round trip ends in, is the native SOL mint, and then it is
\* gross_profit - total_fees; otherwise it is absent.  When both pools
\* trade the configured pair that token is mint_in, so pnl is defined
\* exactly when mint_in is SOL.
C23_PnlDefinedForNative ==
    Quoted =>
        /\ PnlRule(quotes.arb_a_b, pool_b_values)
        /\ PnlRule(quotes.arb_b_a, pool_a_values)
        /\ (TradesPair(pool_a) /\ TradesPair(pool_b)) =>
              /\ quotes.arb_a_b.pnl.some <=> IsNativeMint(cfg.mint_in)
              /\ quotes.arb_b_a.pnl.some <=> IsNativeMint(cfg.mint_in)

\* a quote ending in SOL whose pnl is its gross profit less a non-zero cost
C23_Witness ==
    /\ Quoted
    /\ IsNativeMint(pool_b_values.mint0)
    /\ quotes.arb_a_b.pnl.some
    /\ quotes.arb_a_b.total_fees_raw # Zero
    /\ quotes.arb_a_b.pnl.v # quotes.arb_a_b.gross_profit

Among(list, s) == \E i \in DOMAIN list : list[i] = s

\* the steps in list tell the decision and each reason against it
DecisionAudited(list) ==
    /\ ~decision.is_profitable <=> Among(list, "Not profitable")
    /\ ~decision.meets_spread_threshold <=> Among(list, "Spread below threshold")
    /\ decision.should_execute <=> Among(list, "Decision should_execute=true")
    /\ ~decision.should_execute =>
          Among(list, "Not profitable") \/ Among(list, "Spread below threshold")

\* C24: once the decision is made the steps hold the not-profitable reason
\* whenever is_profitable is false, the spread-below-threshold reason
\* whenever meets_spread_threshold is false and the positive confirmation
\* when should_execute is true, and the report written carries them: with
\* should_execute false at least one reason is in the report's steps.
C24_DecisionAuditTrail ==
    /\ (Decided \/ Assembled) => DecisionAudited(steps)
    /\ pc = "done" => DecisionAudited(report.steps)

\* a report of a run that failed both tests, with both reasons in it
C24_Witness ==
    /\ pc = "done"
    /\ ~decision.is_profitable
    /\ ~decision.meets_spread_threshold
    /\ Among(report.steps, "Not profitable")
    /\ Among(report.steps, "Spread below threshold")
    /\ Among(report.steps, "Decision should_execute=false")

\* the two swap instructions, the last two of the transaction
Leg1 == tx[Len(tx) - 1]

Leg2 == tx[Len(tx)]

\* C25: in the assembled transaction the leg-1 swap is on the pool the
\* chosen quote evaluated first and takes mint_in in, from the user's
\* mint_in account; the leg-2 swap is on the pool evaluated second, takes
\* mint_out in and gives mint_in out; and leg 1's destination account is
\* leg 2's source account.
C25_LegsFollowQuote ==
    Assembled =>
        /\ Leg1.pool = PoolDataOf(quotes.chosen.first_label).pool_id
        /\ Leg1.user_source_token = cfg.mint_in
        /\ Leg1.input_mint = cfg.mint_in
        /\ Leg2.pool = PoolDataOf(quotes.chosen.second_label).pool_id
        /\ Leg2.input_mint = MintOut(cfg)
        /\ Leg2.output_mint = cfg.mint_in
        /\ Leg1.user_dest_token = Leg2.user_source_token

\* the fee rate of the call is at most 1_000_000
RateInRange == BLe(sw.trade_fee_rate, BN(UNITS_PER_TRADE_FEE_RATE))

\* C26: for u64 arguments and a fee rate of at most 1_000_000 no
\* intermediate of calculate_swap_output_raw leaves the u128 range: the fee
\* product, the numerator and the denominator are the exact products and
\* sum, fees <= amount_in so net_in = amount_in - fees with no borrow, and
\* the quotient is below 2^64, so the u64 returned is the quotient itself.
C26_SwapMathNoOverflow ==
    SwapReturned /\ RateInRange =>
        /\ BLt(BMul(sw.amount_in, sw.trade_fee_rate), TwoTo128)
        /\ sw.frame.fees = BDiv(BMul(sw.amount_in, sw.trade_fee_rate),
                                BN(UNITS_PER_TRADE_FEE_RATE))
        /\ BLe(sw.frame.fees, sw.amount_in)
        /\ BAdd(sw.frame.net_in, sw.frame.fees) = sw.amount_in
        /\ sw.frame.numerator = BMul(sw.frame.net_in, sw.reserve_out)
        /\ BLt(sw.frame.numerator, TwoTo128)
        /\ sw.frame.denominator = BAdd(sw.reserve_in, sw.frame.net_in)
        /\ ~sw.frame.div_by_zero =>
              /\ BLt(BDiv(sw.frame.numerator, sw.frame.denominator), TwoTo64)
              /\ sw.frame.amount_out = BDiv(sw.frame.numerator, sw.frame.denominator)

\* a call whose numerator needs more than 64 bits and whose denominator is
\* above u64::MAX
C26_Witness ==
    /\ SwapReturned
    /\ RateInRange
    /\ sw.frame.fees # Zero
    /\ ~BLt(sw.frame.numerator, TwoTo64)
    /\ ~BLt(sw.frame.denominator, TwoTo64)
    /\ sw.frame.amount_out # Zero

\* C28: for reserve_in > 0, reserve_out > 0 and a fee rate of at most
\* 1_000_000 the output is strictly below reserve_out and the product of
\* the reserves after the swap, (reserve_in + net_in) * (reserve_out -
\* amount_out), is at least reserve_in * reserve_out.
C28_ConstantProductKept ==
    (SwapReturned /\ RateInRange /\ sw.reserve_in # Zero /\ sw.reserve_out # Zero) =>
        /\ ~sw.frame.div_by_zero
        /\ BLt(sw.frame.amount_out, sw.reserve_out)
        /\ BLe(BMul(sw.reserve_in, sw.reserve_out),
               BMul(BAdd(sw.reserve_in, sw.frame.net_in),
                    BSub(sw.reserve_out, sw.frame.amount_out)))

\* a swap that pays out, and whose quotient was not exact, so that the
\* product grew
C28_Witness ==
    /\ SwapReturned
    /\ RateInRange
    /\ sw.reserve_in # Zero
    /\ sw.reserve_out # Zero
    /\ sw.frame.amount_out # Zero
    /\ BLt(BMul(sw.reserve_in, sw.reserve_out),
           BMul(BAdd(sw.reserve_in, sw.frame.net_in),
                BSub(sw.reserve_out, sw.frame.amount_out)))

\* the mints whose token account the transaction creates, and the mints
\* whose account was counted absent when rent was charged
CreatedMints == {tx[i].mint : i \in {j \in DOMAIN tx : tx[j].kind = "create_ata"}}

RentedMints == {atas[i].mint : i \in {j \in 1..2 : ~atas[j].exists}}

\* C29: the token accounts the assembled transaction creates are the
\* accounts rent was charged for: one creation instruction for each account
\* counted absent, none for an account observed present, whatever the chain
\* says about those accounts when the transaction is assembled.
C29_CreationsMatchRent ==
    Assembled =>
        /\ CreatedMints = RentedMints
        /\ Cardinality({j \in DOMAIN tx : tx[j].kind = "create_ata"})
             = Cardinality(RentedMints)

\* the priority fee in lamports the transaction asks to pay: its unit price
\* in micro-lamports times its compute-unit limit, over 1_000_000
RequestedPriorityFee ==
    BDiv(BMul(tx[2].price, BN(tx[1].units)), BN(MICRO_LAMPORTS_PER_LAMPORTS))

\* C30: each quote's total cost is rent_raw plus the priority fee in
\* lamports of the assembled transaction, floor(unit price * compute-unit
\* limit / 1_000_000): the units of the estimate are the limit the assembler
\* sets, and both directions' quotes carry the same total cost.
C30_CostMatchesTransaction ==
    Assembled =>
        /\ tx[1].kind = "set_compute_unit_limit"
        /\ tx[2].kind = "set_compute_unit_price"
        /\ quotes.arb_a_b.total_fees_raw = BAdd(rent_raw, RequestedPriorityFee)
        /\ quotes.arb_b_a.total_fees_raw = BAdd(rent_raw, RequestedPriorityFee)
        /\ ESTIMATED_COMPUTE_UNITS = tx[1].units

====
